---- MODULE Spec2Model ----
(***************************************************************************)
(* Model of the dfir-analyzer backend: the /analyze handler of             *)
(* backend/main.py (analyze_file) and the RAW-image pipeline of            *)
(* backend/forensics.py (analyze_raw_image).                               *)
(*                                                                         *)
(* One behaviour is one call.  The call enters either through the HTTP     *)
(* handler analyze_file or directly at analyze_raw_image (entry), and pc   *)
(* follows the code from there.  The pytsk3 library, the temporary file,   *)
(* and the content scorer are the environment: their outcomes are chosen   *)
(* nondeterministically where the code calls them.                         *)
(*                                                                         *)
(* Units: entropy is in thousandths of a bit per byte (7500 = 7.5), so     *)
(* that the arithmetic of the entropy score is exact integer arithmetic.   *)
(* Scores are integers 0..100 (score_file returns an int, and the values   *)
(* postprocess_content_aware mixes in are whole numbers).                  *)
(***************************************************************************)
EXTENDS Integers, Sequences, FiniteSets, TLC

\* ------------------------------------------------------------------ bounds
\* Regular files an image holds.
MaxFiles == 10
\* Partitions a volume system lists.
MaxParts == 1
\* Files whose timestamps are followed through the timeline.
MaxTimeline == 3
\* Files whose hashing is followed read by read.
MaxHashFiles == 2
\* The depth at which the interpreter refuses to nest another generator
\* (RecursionError), and the number of failing opens and reads in one walk.
MaxDepth == 3
MaxFailures == 2

\* --------------------------------------------------------- program constants
MAX_SAMPLES == 8
OPEN_ATTEMPTS == 5
SLEEP_STEP_MS == 200
MIN_IMAGE_LEN == 512
MAX_UPLOAD == 52428800
SIZE_BONUS_MIN == 2000000
HIGH_ENTROPY_MIN_SIZE == 50000

Max(a, b) == IF a >= b THEN a ELSE b
Min(a, b) == IF a <= b THEN a ELSE b

\* Python's max(...) over a non-empty list of integers.
MaxOfSeq(s) == CHOOSE m \in {s[i] : i \in DOMAIN s} : \A j \in DOMAIN s : s[j] <= m

VARIABLES
    entry,          \* "analyze_file" (HTTP) or "analyze_raw_image" (direct call)
    contents,       \* the uploaded buffer: [len, mbr]
    upload,         \* what the file name says: [raw, susp, ben]
    pc,             \* position in the code
    tmp,            \* the temporary backing file: "none", "exists", "removed"
    img_info,       \* the pytsk3 image handle: "None" or "open"
    attempt,        \* failed pytsk3.Img_Info attempts of the retry loop so far
    slept,          \* the waits of the retry loop so far, in milliseconds
    nparts,         \* partitions of the volume system iterated so far
    fs_objects,     \* mounted volumes (labels), in mount order
    vol,            \* index in fs_objects of the volume being traversed
    parse_errors,   \* parse_errors list (kinds of the messages)
    validation_msg, \* message of _validate_disk_image
    raw_head,       \* what the head of the buffer holds; read: the fallback analyzer looked at it
    records,        \* FileRecord list, in traversal order
    suspicious_items,
    file_scores,
    suspicious_first,
    largest_rest,
    result,         \* what analyze_raw_image returned (a dict), or NoResult
    raised,         \* exception that left analyze_raw_image, or "none"
    sample_scores,  \* analyze_file: scored samples
    risk_model,     \* img_risk after the ML triage gate (None if no score)
    risk_current,   \* img_risk before the ML override blocks
    img_risk,       \* final img_risk
    response        \* what the caller of the entry point gets

main_vars == <<entry, contents, upload, raw_head, pc, tmp, img_info, attempt, slept, nparts, fs_objects, vol,
               parse_errors, validation_msg, records, suspicious_items,
               file_scores, suspicious_first, largest_rest, result, raised,
               sample_scores, risk_model, risk_current, img_risk, response>>

\* The state of the two parts of analyze_raw_image that are followed file by
\* file on their own: the building and sorting of the timeline
\* (forensics.py 360-377, 471-483) and the hashing of one file
\* (forensics.py 134-158, 358, 450-451).
VARIABLES
    tl_pc,          \* timeline: "idle", "collect", "sorted"
    tl_records,     \* FileRecords in traversal order: [path, mtime, ctime]
    timeline,       \* the timeline list
    h_pc,           \* hashing: "idle", "next", "read", "ret"
    tsk_file,       \* the file being hashed: [size, meta_ok]
    offset,         \* _hash_file: bytes read so far
    hasher,         \* _hash_file: length of the prefix of the file fed to the hasher
    reads,          \* outcomes of read_random for this file so far
    hash_ret,       \* what _hash_file returned: [size, sha256]
    h_records,      \* FileRecords in traversal order: [path, size, sha256]
    all_hashes,     \* the hashes list: [path, sha256]
    read_log        \* per record, the outcomes of its reads

tl_vars == <<tl_pc, tl_records, timeline>>
hash_vars == <<h_pc, tsk_file, offset, hasher, reads, hash_ret, h_records, all_hashes,
               read_log>>

\* The signal extraction of one file, on its own (forensics.py 378-448, 485-505).
VARIABLES
    sx_pc,          \* "idle", "head", "signals", "pool", "finalize", "done"
    sx_file,        \* the file: what its first MiB holds, its extension and size
    sx_head,        \* head: the bytes read_random returned, by length and content
    sx_reasons,     \* reasons
    sx_items,       \* suspicious_items
    sx_first,       \* suspicious_first
    sx_rest,        \* largest_rest
    sx_samples      \* picked_samples

\* _validate_disk_image on its own (forensics.py 161-198).
VARIABLES
    v_pc,           \* "idle", "call", "done"
    file_bytes,     \* the buffer, by its length and what its fixed offsets hold
    v_ret           \* the (is_valid, reason) it returned

\* The walk of one volume (forensics.py 85-131, 346-358, 453-456).
VARIABLES
    w_pc,           \* "idle", "open", "walk", "done"
    w_fs,           \* the volume: "tree" or "cyclic"
    w_stack,        \* the active _iter_fs_entries generators: [dir, idx]
    w_yield,        \* the (path, entry) pairs yielded: [name, depth, opened]
    w_swallowed,    \* the exceptions caught so far: [kind, dir, name]
    w_errors        \* parse_errors

walk_vars == <<w_pc, w_fs, w_stack, w_yield, w_swallowed, w_errors>>
\* The keyword tests of the signal extractor and of the fallback analyzer
\* on the same bytes (forensics.py 383-387, 516-525).
VARIABLES
    k_pc,           \* "idle", "file", "fallback", "done"
    k_head,         \* the bytes: for each keyword, how it occurs in them
    k_file,         \* is_js, is_vbs, is_ps1 of the signal extractor
    k_fallback      \* the classes the fallback analyzer appends an item for

\* The resolution of the user of a request (main.py 88-109) and the
\* handlers that use it.
VARIABLES
    a_pc,           \* "idle", "resolve", "serve", "done"
    request,        \* the request: endpoint, Authorization header, token
    uid,            \* what _user_id_from_request returned
    scans,          \* db.scans: [user_id, filename]
    a_resp          \* what the handler returned

auth_vars == <<a_pc, request, uid, scans, a_resp>>
kw_vars == <<k_pc, k_head, k_file, k_fallback>>
sig_vars == <<sx_pc, sx_file, sx_head, sx_reasons, sx_items, sx_first, sx_rest, sx_samples>>
val_vars == <<v_pc, file_bytes, v_ret>>
unit_vars == <<sig_vars, val_vars, walk_vars, kw_vars, auth_vars>>
sig_rest == <<main_vars, tl_vars, hash_vars, val_vars, walk_vars, kw_vars, auth_vars>>
val_rest == <<main_vars, tl_vars, hash_vars, sig_vars, walk_vars, kw_vars, auth_vars>>
walk_rest == <<main_vars, tl_vars, hash_vars, sig_vars, val_vars, kw_vars, auth_vars>>
kw_rest == <<main_vars, tl_vars, hash_vars, sig_vars, val_vars, walk_vars, auth_vars>>
auth_rest == <<main_vars, tl_vars, hash_vars, sig_vars, val_vars, walk_vars, kw_vars>>
aux_vars == <<tl_vars, hash_vars, unit_vars>>
vars == <<main_vars, aux_vars>>

\* Python's None, for the variables that otherwise hold a score.
None == -1
NoResult == [none |-> TRUE]
NoResponse == [status |-> 0]
\* The buffer's head before the fallback analyzer has looked at it.
Unread == [read |-> FALSE, starts_mz |-> FALSE, classes |-> {}]

\* ------------------------------------------------------------ the inputs
\* Entropy values (thousandths of a bit per byte) a head sample can have.
EntropyGrid == {0, 6000, 7500, 7550, 7600, 7900, 8000}

\* A buffer is described by what the code looks at: its length, the
\* signatures _validate_disk_image sniffs, whether its first 10,000 bytes
\* are less than 80% printable text, the Shannon entropy of its head (ent:
\* the buffers are chosen so that the first MiB and the first 5 MiB have the
\* same entropy), and what pytsk3 can find in it (layout): a filesystem at
\* offset 0 ("fs"), a volume system with partitions ("vs"), or neither; an
\* image with a layout may still fail to mount.
NoSig == "none"
NoLayout == "none"
Unmountable(len, binary) ==
    { [len |-> len, mbr |-> FALSE, gpt |-> FALSE, sig |-> NoSig, binary |-> binary,
       ent |-> e, layout |-> NoLayout] : e \in EntropyGrid }
Buffers ==
    { [len |-> 0,        mbr |-> FALSE, gpt |-> FALSE, sig |-> NoSig, binary |-> FALSE,
       ent |-> 0,    layout |-> NoLayout],
      [len |-> 100,      mbr |-> FALSE, gpt |-> FALSE, sig |-> NoSig, binary |-> TRUE,
       ent |-> 6000, layout |-> NoLayout],
      [len |-> 4096,     mbr |-> TRUE,  gpt |-> FALSE, sig |-> NoSig, binary |-> TRUE,
       ent |-> 6000, layout |-> "vs"],
      [len |-> 2000000,  mbr |-> FALSE, gpt |-> FALSE, sig |-> "NTFS", binary |-> TRUE,
       ent |-> 7900, layout |-> "fs"],
      [len |-> 52428801, mbr |-> TRUE,  gpt |-> TRUE,  sig |-> NoSig, binary |-> TRUE,
       ent |-> 7900, layout |-> "vs"] }
    \cup Unmountable(1999999, FALSE) \cup Unmountable(2000000, TRUE)

\* What analyze_file derives from the file name: the extension is one of
\* .raw/.dd/.img (raw), the name marks the upload suspicious or benign.
Uploads ==
    { [raw |-> TRUE,  susp |-> FALSE, ben |-> FALSE],
      [raw |-> TRUE,  susp |-> TRUE,  ben |-> FALSE],
      [raw |-> TRUE,  susp |-> FALSE, ben |-> TRUE],
      [raw |-> TRUE,  susp |-> TRUE,  ben |-> TRUE],
      [raw |-> FALSE, susp |-> TRUE,  ben |-> FALSE] }

\* Scores the content scorer (score_file) returns; Fail: it raised.
Fail == -2
RawScores == {0, 20, 59, 60, 85, 100}

\* ------------------------------------------------ _validate_disk_image
\* Offset just past each filesystem signature (offset + len(sig)).
SigEnd(sig) ==
    CASE sig = "NTFS"  -> 3 + 8
      [] sig = "FAT32" -> 82 + 8
      [] sig = "FAT16" -> 54 + 8
      [] sig = "FAT12" -> 54 + 8
      [] sig = "EXT"   -> 1080 + 2
      [] sig = "HFS+"  -> 1024 + 4
      [] OTHER         -> 0

validate_disk_image(b) ==
    IF b.len < MIN_IMAGE_LEN THEN [valid |-> FALSE, msg |-> "too small"]
    ELSE IF b.mbr THEN [valid |-> TRUE, msg |-> "MBR"]
    ELSE IF b.len >= 520 /\ b.gpt THEN [valid |-> TRUE, msg |-> "GPT"]
    ELSE IF b.sig # NoSig /\ SigEnd(b.sig) < b.len THEN [valid |-> TRUE, msg |-> b.sig]
    ELSE IF b.len > 1024000 /\ b.binary THEN [valid |-> TRUE, msg |-> "large binary"]
    ELSE [valid |-> FALSE, msg |-> "no signature"]

\* ------------------------------------------------------------------ Init
\* The timeline and hashing parts at rest.
TimelineIdle == tl_pc = "idle" /\ tl_records = << >> /\ timeline = << >>
NoFile == [size |-> 0, meta_ok |-> TRUE]
NoReturn == [size |-> 0, sha256 |-> None]
HashIdle ==
    /\ h_pc = "idle" /\ tsk_file = NoFile /\ offset = 0 /\ hasher = 0 /\ reads = << >>
    /\ hash_ret = NoReturn /\ h_records = << >> /\ all_hashes = << >> /\ read_log = << >>
\* A head of no bytes (b""), and a file of no bytes.
EmptyHead == [len |-> 0, is_pe |-> FALSE, is_js |-> FALSE, is_vbs |-> FALSE, is_ps1 |-> FALSE,
              ent |-> 0]
EmptyFile == [mz |-> FALSE, js |-> FALSE, vbs |-> FALSE, ps1 |-> FALSE, ext |-> "", ent |-> 0,
              size |-> 0]
SignalsIdle ==
    /\ sx_pc = "idle" /\ sx_file = EmptyFile /\ sx_head = EmptyHead /\ sx_reasons = << >>
    /\ sx_items = << >> /\ sx_first = << >> /\ sx_rest = << >> /\ sx_samples = << >>
NoBytes == [len |-> 0, mbr |-> FALSE, gpt |-> FALSE, sig |-> "none", binary |-> FALSE]
NoVerdict == [valid |-> FALSE, msg |-> "none"]
ValidateIdle == v_pc = "idle" /\ file_bytes = NoBytes /\ v_ret = NoVerdict
WalkIdle ==
    /\ w_pc = "idle" /\ w_fs = "tree" /\ w_stack = << >> /\ w_yield = << >>
    /\ w_swallowed = << >> /\ w_errors = << >>
KEYWORDS == {"function", "eval(", "<script", "createobject", "wscript", "param(", "invoke-"}
NoFlags == [js |-> FALSE, vbs |-> FALSE, ps1 |-> FALSE]
KeywordsIdle ==
    /\ k_pc = "idle" /\ k_head = [k \in KEYWORDS |-> "absent"] /\ k_file = NoFlags
    /\ k_fallback = NoFlags
NoRequest == [endpoint |-> "none", auth |-> "none", form |-> "none", signed |-> FALSE,
              sub |-> ""]
NoReply == [kind |-> "none"]
AuthIdle ==
    /\ a_pc = "idle" /\ request = NoRequest /\ uid = "anon" /\ scans = << >>
    /\ a_resp = NoReply
UnitsIdle == SignalsIdle /\ ValidateIdle /\ WalkIdle /\ KeywordsIdle /\ AuthIdle
AuxIdle == TimelineIdle /\ HashIdle /\ UnitsIdle

Init ==
    /\ entry \in {"analyze_file", "analyze_raw_image"}
    /\ contents \in Buffers
    /\ upload \in Uploads
    /\ entry = "analyze_raw_image" =>
         /\ upload = [raw |-> TRUE, susp |-> FALSE, ben |-> FALSE]
         /\ contents.len <= 4096
    /\ pc = IF entry = "analyze_file" THEN "af_start" ELSE "ari_entry"
    /\ tmp = "none"
    /\ img_info = "None"
    /\ attempt = 0
    /\ slept = << >>
    /\ nparts = 0
    /\ vol = 0
    /\ fs_objects = << >>
    /\ parse_errors = << >>
    /\ validation_msg = ""
    /\ raw_head = Unread
    /\ records = << >>
    /\ suspicious_items = << >>
    /\ file_scores = << >>
    /\ suspicious_first = << >>
    /\ largest_rest = << >>
    /\ result = NoResult
    /\ raised = "none"
    /\ sample_scores = << >>
    /\ risk_model = None
    /\ risk_current = None
    /\ img_risk = None
    /\ response = NoResponse
    /\ AuxIdle

ari_vars == <<tmp, img_info, attempt, slept, nparts, fs_objects, vol, parse_errors, validation_msg,
              records, suspicious_items, file_scores, suspicious_first,
              largest_rest, result, raised>>
af_vars == <<sample_scores, risk_model, risk_current, img_risk>>

\* --------------------------------------------- analyze_file, before RAW
\* main.py 257-259: empty upload is rejected.
AF_RejectEmpty ==
    /\ pc = "af_start"
    /\ contents.len = 0
    /\ response' = [status |-> 400, detail |-> "Empty file uploaded"]
    /\ pc' = "done"
    /\ UNCHANGED <<aux_vars, raw_head, entry, contents, upload, ari_vars, af_vars>>

\* main.py 261-263: uploads over 50 MiB are rejected.
AF_RejectTooLarge ==
    /\ pc = "af_start"
    /\ contents.len # 0
    /\ contents.len > MAX_UPLOAD
    /\ response' = [status |-> 400, detail |-> "File too large"]
    /\ pc' = "done"
    /\ UNCHANGED <<aux_vars, raw_head, entry, contents, upload, ari_vars, af_vars>>

AF_Accepted == contents.len # 0 /\ contents.len <= MAX_UPLOAD

\* main.py 300-328, 466-494: result_out is returned, put into the analysis
\* cache and, for a known user whose insert succeeds (saved), stored as the
\* summary of a scan document.
Delivered(result_out, saved) ==
    [status |-> 200,
     body |-> result_out,
     cached |-> result_out,
     persisted |-> IF saved THEN <<result_out>> ELSE << >>]

is_demo(u) == u.raw /\ (u.susp \/ u.ben)

\* main.py 283-290: low + (num % span), num the integer of a SHA-256 digest.
deterministic_score(num, low, high) == low + (num % (high - low + 1))

\* Residues of the digest that matter for low + num % span with span <= 16.
DigestNums == 0 .. 32

\* main.py 270-326: the demo override for RAW images named suspicious/benign.
AF_DemoOverride ==
    /\ pc = "af_start"
    /\ AF_Accepted
    /\ is_demo(upload)
    /\ \E num \in DigestNums :
         LET demo_score == IF upload.susp
                           THEN deterministic_score(num, 90, 100)
                           ELSE deterministic_score(num, 5, 20)
         IN /\ img_risk' = demo_score
            /\ \E saved \in BOOLEAN :
                 response' = Delivered([num_files |-> 0,
                                        suspicious |-> IF upload.susp THEN 1 ELSE 0,
                                        risk_score |-> demo_score], saved)
    /\ pc' = "done"
    /\ UNCHANGED <<aux_vars, raw_head, entry, contents, upload, ari_vars, sample_scores, risk_model, risk_current>>

\* main.py 331-336: a RAW extension goes to analyze_raw_image.
AF_CallRaw ==
    /\ pc = "af_start"
    /\ AF_Accepted
    /\ ~is_demo(upload)
    /\ upload.raw
    /\ pc' = "ari_entry"
    /\ UNCHANGED <<aux_vars, raw_head, entry, contents, upload, ari_vars, af_vars, response>>

\* main.py 496-535: any other file is scored by the model alone.
AF_NonRaw ==
    /\ pc = "af_start"
    /\ AF_Accepted
    /\ ~upload.raw
    /\ \E s \in RawScores \cup {Fail} :
         response' = IF s = Fail
                     THEN [status |-> 500, detail |-> "Scoring failed"]
                     ELSE [status |-> 200, body |-> [risk_score |-> s]]
    /\ pc' = "done"
    /\ UNCHANGED <<aux_vars, raw_head, entry, contents, upload, ari_vars, af_vars>>

\* ------------------------------------------------- analyze_raw_image
trav_vars == <<records, suspicious_items, file_scores, suspicious_first,
               largest_rest>>

\* forensics.py 458-469: the finally block calls os.remove(tmp_path) and
\* swallows its failure ("Cleanup failed").  The pytsk3 image handle is never
\* closed before the removal: where an open handle forbids deletion the call
\* fails and the file stays, elsewhere it is removed.  The result is the set
\* of states of the temporary file the finally block can leave.
Cleanup(t, handle) ==
    IF t = "exists"
    THEN {"removed"} \cup (IF handle = "open" THEN {"exists"} ELSE {})
    ELSE {t}

\* Leaving analyze_raw_image with an exception (the finally block runs first).
Raise(exc) ==
    /\ raised' = exc
    /\ tmp' \in Cleanup(tmp, img_info)
    /\ pc' = "ari_exit"

\* Mutant of ARI_Empty: the empty buffer is not checked for.
ARI_EmptyUnchecked ==
    /\ pc = "ari_entry"
    /\ contents.len = 0
    /\ pc' = "ari_mkstemp"
    /\ UNCHANGED <<aux_vars, raw_head, entry, contents, upload, tmp, img_info, attempt, slept, nparts, fs_objects, vol,
                   parse_errors, validation_msg, trav_vars, result, raised, af_vars,
                   response>>

\* forensics.py 227-228: an empty buffer raises ValueError.
ARI_Empty ==
    /\ pc = "ari_entry"
    /\ contents.len = 0
    /\ raised' = "ValueError"
    /\ pc' = "ari_exit"
    /\ UNCHANGED <<aux_vars, raw_head, entry, contents, upload, tmp, img_info, attempt, slept, nparts, fs_objects, vol,
                   parse_errors, validation_msg, trav_vars, result, af_vars, response>>

\* forensics.py 229-230: without pytsk3 the call raises RuntimeError.
ARI_NoPytsk ==
    /\ pc = "ari_entry"
    /\ contents.len # 0
    /\ raised' = "RuntimeError"
    /\ pc' = "ari_exit"
    /\ UNCHANGED <<aux_vars, raw_head, entry, contents, upload, tmp, img_info, attempt, slept, nparts, fs_objects, vol,
                   parse_errors, validation_msg, trav_vars, result, af_vars, response>>

\* forensics.py 232-233: the verdict is logged; only the message is kept.
ARI_Validate ==
    /\ pc = "ari_entry"
    /\ contents.len # 0
    /\ validation_msg' = validate_disk_image(contents).msg
    /\ pc' = "ari_mkstemp"
    /\ UNCHANGED <<aux_vars, raw_head, entry, contents, upload, tmp, img_info, attempt, slept, nparts, fs_objects, vol,
                   parse_errors, trav_vars, result, raised, af_vars, response>>

\* forensics.py 244-252: the buffer is written to a temporary file and closed.
ARI_Mkstemp ==
    /\ pc = "ari_mkstemp"
    /\ tmp' = "exists"
    /\ pc' = "ari_open"
    /\ UNCHANGED <<aux_vars, raw_head, entry, contents, upload, img_info, attempt, slept, nparts, fs_objects, vol,
                   parse_errors, validation_msg, trav_vars, result, raised, af_vars,
                   response>>

\* forensics.py 257-261: pytsk3.Img_Info(tmp_path) succeeds and the loop is
\* left.  attempt is the loop variable and slept the loop's waits: nothing
\* reads them after the loop, so they are cleared here.
ARI_OpenOk ==
    /\ pc = "ari_open"
    /\ attempt < OPEN_ATTEMPTS
    /\ attempt' = 0
    /\ slept' = << >>
    /\ img_info' = "open"
    /\ pc' = "ari_fs"
    /\ UNCHANGED <<aux_vars, raw_head, entry, contents, upload, tmp, nparts, fs_objects, vol, parse_errors,
                   validation_msg, trav_vars, result, raised, af_vars, response>>

\* Mutant of ARI_OpenFail: the wait between attempts does not grow.
ARI_OpenFailFlatWait ==
    /\ pc = "ari_open"
    /\ attempt < OPEN_ATTEMPTS
    /\ attempt' = attempt + 1
    /\ IF attempt < OPEN_ATTEMPTS - 1
       THEN /\ slept' = Append(slept, SLEEP_STEP_MS)
            /\ pc' = "ari_open"
            /\ UNCHANGED <<parse_errors, raised, tmp>>
       ELSE /\ parse_errors' = Append(parse_errors, "open failed")
            /\ Raise("ValueError")
            /\ UNCHANGED slept
    /\ UNCHANGED <<aux_vars, raw_head, entry, contents, upload, img_info, nparts, fs_objects, vol, validation_msg,
                   trav_vars, result, af_vars, response>>

\* forensics.py 262-269: Img_Info raises OSError; after a failed attempt
\* other than the last, time.sleep(0.2 * (attempt + 1)) and retry; after the
\* last, give up with ValueError.
ARI_OpenFail ==
    /\ pc = "ari_open"
    /\ attempt < OPEN_ATTEMPTS
    /\ attempt' = attempt + 1
    /\ IF attempt < OPEN_ATTEMPTS - 1
       THEN /\ slept' = Append(slept, SLEEP_STEP_MS * (attempt + 1))
            /\ pc' = "ari_open"
            /\ UNCHANGED <<parse_errors, raised, tmp>>
       ELSE /\ parse_errors' = Append(parse_errors, "open failed")
            /\ Raise("ValueError")
            /\ UNCHANGED slept
    /\ UNCHANGED <<aux_vars, raw_head, entry, contents, upload, img_info, nparts, fs_objects, vol, validation_msg,
                   trav_vars, result, af_vars, response>>

\* forensics.py 274-277: the image is one filesystem.
ARI_FsDirect ==
    /\ pc = "ari_fs"
    /\ contents.layout = "fs"
    /\ fs_objects' = <<"/">>
    /\ pc' = "ari_check"
    /\ UNCHANGED <<aux_vars, raw_head, entry, contents, upload, tmp, img_info, attempt, slept, nparts, vol, parse_errors,
                   validation_msg, trav_vars, result, raised, af_vars, response>>

\* forensics.py 278-283: FS_Info fails and Volume_Info opens.
ARI_VolumeInfo ==
    /\ pc = "ari_fs"
    /\ contents.layout = "vs"
    /\ pc' = "ari_vs"
    /\ UNCHANGED <<aux_vars, raw_head, entry, contents, upload, tmp, img_info, attempt, slept, nparts, fs_objects, vol,
                   parse_errors, validation_msg, trav_vars, result, raised, af_vars,
                   response>>

\* forensics.py 320-322: FS_Info fails and Volume_Info fails too.
ARI_VolumeInfoFail ==
    /\ pc = "ari_fs"
    /\ parse_errors' = Append(parse_errors, "volume system error")
    /\ pc' = "ari_check"
    /\ UNCHANGED <<aux_vars, raw_head, entry, contents, upload, tmp, img_info, attempt, slept, nparts, fs_objects, vol,
                   validation_msg, trav_vars, result, raised, af_vars, response>>

PartKinds == {"badlen", "mountable", "unmountable", "itererr"}

\* forensics.py 285-314: one partition of the volume system.
ARI_Partition ==
    /\ pc = "ari_vs"
    /\ nparts < MaxParts
    /\ nparts' = nparts + 1
    /\ \E kind \in PartKinds :
         CASE kind = "badlen" ->
                UNCHANGED <<fs_objects, parse_errors>>
           [] kind = "mountable" ->
                /\ fs_objects' = Append(fs_objects, "partition")
                /\ UNCHANGED parse_errors
           [] kind = "unmountable" ->
                /\ parse_errors' = Append(parse_errors, "partition mount failed")
                /\ UNCHANGED fs_objects
           [] kind = "itererr" ->
                /\ parse_errors' = Append(parse_errors, "partition iteration error")
                /\ UNCHANGED fs_objects
    /\ UNCHANGED <<aux_vars, raw_head, entry, contents, upload, pc, tmp, img_info, attempt, slept, vol, validation_msg,
                   trav_vars, result, raised, af_vars, response>>

\* forensics.py 316-318: the partition loop ends; partition_count is the
\* number of volumes mounted.  nparts is the position of the loop: nothing
\* reads it after the loop, so it is cleared here.
ARI_PartitionsDone ==
    /\ pc = "ari_vs"
    /\ parse_errors' = IF Len(fs_objects) = 0
                       THEN Append(parse_errors, "no accessible partitions")
                       ELSE parse_errors
    /\ nparts' = 0
    /\ pc' = "ari_check"
    /\ UNCHANGED <<aux_vars, raw_head, entry, contents, upload, tmp, img_info, attempt, slept, fs_objects, vol,
                   validation_msg, trav_vars, result, raised, af_vars, response>>

ONE_MIB == 1048576

\* forensics.py 31-43 on file_bytes[:n]: the head entropy of the buffer.
entropy_head(b, n) == IF Min(b.len, n) = 0 THEN 0 ELSE b.ent

\* Mutant of ARI_Unreadable: the failure is raised instead of returned.
ARI_UnreadableRaises ==
    /\ pc = "ari_check"
    /\ Len(fs_objects) = 0
    /\ Raise("ValueError")
    /\ UNCHANGED <<aux_vars, raw_head, entry, contents, upload, img_info, attempt, slept, nparts, fs_objects, vol,
                   parse_errors, validation_msg, trav_vars, result, af_vars, response>>

Range(s) == {s[i] : i \in DOMAIN s}

\* forensics.py 517-525: the keyword classes found in the raw buffer.
FallbackClasses == <<"pe_header", "js_keywords", "vbs_keywords", "ps1_keywords">>
FallbackExt == <<".exe", ".js", ".vbs", ".ps1">>

\* The heads a buffer can have, as far as the fallback analyzer tells them
\* apart: whether the first two bytes are 'MZ', and which keyword classes
\* its tests at forensics.py 517-525 find.  The test for pe_header is
\* b"mz" in head.lower(): it finds 'MZ' in any case at any offset, so it
\* succeeds on every head that starts with 'MZ' and on others as well.
RawHeads ==
    { [read |-> TRUE, starts_mz |-> st, classes |-> cl] :
        st \in BOOLEAN, cl \in SUBSET Range(FallbackClasses) } \
    { h \in [read : {TRUE}, starts_mz : {TRUE}, classes : SUBSET Range(FallbackClasses)] :
        "pe_header" \notin h.classes }

\* forensics.py 324-339: nothing could be mounted; the result carries the
\* entropy of the first MiB and the buffer size.  The buffer is not
\* inspected: raw_head notes what its first 5 MiB hold, with read FALSE.
ARI_Unreadable ==
    /\ pc = "ari_check"
    /\ Len(fs_objects) = 0
    /\ LET ent == entropy_head(contents, ONE_MIB)
       IN result' = [num_files |-> 0,
                    suspicious_detail |-> << >>,
                    error |-> "Failed to parse disk image",
                    error_details |-> parse_errors,
                    validation_message |-> validation_msg,
                    fallback_entropy |-> ent,
                    fallback_size |-> contents.len]
    /\ \E h \in RawHeads : raw_head' = [h EXCEPT !.read = FALSE]
    /\ tmp' \in Cleanup(tmp, img_info)
    /\ pc' = "ari_exit"
    /\ UNCHANGED <<aux_vars, entry, contents, upload, img_info, attempt, slept, nparts, fs_objects, vol,
                   parse_errors, validation_msg, trav_vars, raised, af_vars, response>>

\* forensics.py 346-347: the traversal loop starts with the first volume.
ARI_StartTraversal ==
    /\ pc = "ari_check"
    /\ Len(fs_objects) > 0
    /\ vol' = 1
    /\ pc' = "ari_traverse"
    /\ UNCHANGED <<aux_vars, raw_head, entry, contents, upload, tmp, img_info, attempt, slept, nparts, fs_objects,
                   parse_errors, validation_msg, trav_vars, result, raised, af_vars,
                   response>>

\* ------------------------------------------------------- the traversal
SUSPICIOUS_EXTENSIONS == {".exe", ".dll", ".js", ".vbs", ".ps1", ".bat", ".scr"}

\* The files an image can hold, described by what the code reads from them:
\* the head bytes (MZ magic, keyword classes, entropy), the extension, the
\* size, and what postprocess_content_aware looks for in the head (macro or
\* PowerShell markers, a URL together with a base64 run, a benign-looking
\* name).  ml is what the content scorer returns for the file's head and
\* name (Fail: it raises); the scorer is a deterministic function of both.
FileKinds ==
    { [name |-> "notes.dat", ext |-> ".dat", size |-> 1000, ent |-> 4000,
       is_pe |-> FALSE, is_js |-> FALSE, is_vbs |-> FALSE, is_ps1 |-> FALSE,
       macro_pwsh |-> FALSE, url_b64 |-> FALSE, benignish |-> FALSE],
      [name |-> "setup.exe", ext |-> ".exe", size |-> 1000, ent |-> 6000,
       is_pe |-> TRUE, is_js |-> FALSE, is_vbs |-> FALSE, is_ps1 |-> FALSE,
       macro_pwsh |-> FALSE, url_b64 |-> FALSE, benignish |-> FALSE],
      [name |-> "dropper.exe", ext |-> ".exe", size |-> 1000, ent |-> 6000,
       is_pe |-> TRUE, is_js |-> TRUE, is_vbs |-> FALSE, is_ps1 |-> FALSE,
       macro_pwsh |-> FALSE, url_b64 |-> FALSE, benignish |-> FALSE],
      [name |-> "readme.txt", ext |-> ".txt", size |-> 1000, ent |-> 4000,
       is_pe |-> FALSE, is_js |-> TRUE, is_vbs |-> FALSE, is_ps1 |-> FALSE,
       macro_pwsh |-> FALSE, url_b64 |-> FALSE, benignish |-> TRUE],
      [name |-> "lib.dll", ext |-> ".dll", size |-> 1000, ent |-> 6000,
       is_pe |-> FALSE, is_js |-> FALSE, is_vbs |-> FALSE, is_ps1 |-> FALSE,
       macro_pwsh |-> FALSE, url_b64 |-> TRUE, benignish |-> FALSE],
      [name |-> "run.ps1", ext |-> ".ps1", size |-> 1000, ent |-> 4000,
       is_pe |-> FALSE, is_js |-> FALSE, is_vbs |-> FALSE, is_ps1 |-> TRUE,
       macro_pwsh |-> TRUE, url_b64 |-> FALSE, benignish |-> FALSE],
      [name |-> "blob.bin", ext |-> ".bin", size |-> 60000, ent |-> 7900,
       is_pe |-> FALSE, is_js |-> FALSE, is_vbs |-> FALSE, is_ps1 |-> FALSE,
       macro_pwsh |-> FALSE, url_b64 |-> FALSE, benignish |-> FALSE] }

\* The files the bulk of an image (every file after the first) is made of.
FillerNames == {"notes.dat", "blob.bin", "lib.dll"}
FillerScores == {Fail, 20, 100}

WithMl(f, ml) == [x \in DOMAIN f \cup {"ml"} |-> IF x = "ml" THEN ml ELSE f[x]]

\* Mutant of Reasons: entropy alone flags a file, whatever its size.
ReasonsEntropyAlone(f) ==
    (IF f.is_pe THEN <<"pe_header">> ELSE << >>)
    \o (IF f.is_js THEN <<"js_keywords">> ELSE << >>)
    \o (IF f.is_vbs THEN <<"vbs_keywords">> ELSE << >>)
    \o (IF f.is_ps1 THEN <<"ps1_keywords">> ELSE << >>)
    \o (IF f.ext \in SUSPICIOUS_EXTENSIONS THEN <<"susp_ext">> ELSE << >>)
    \o (IF f.ent >= 7500 THEN <<"high_entropy">> ELSE << >>)

\* forensics.py 392-404: the reasons, in detection order.
Reasons(f) ==
    (IF f.is_pe THEN <<"pe_header">> ELSE << >>)
    \o (IF f.is_js THEN <<"js_keywords">> ELSE << >>)
    \o (IF f.is_vbs THEN <<"vbs_keywords">> ELSE << >>)
    \o (IF f.is_ps1 THEN <<"ps1_keywords">> ELSE << >>)
    \o (IF f.ext \in SUSPICIOUS_EXTENSIONS THEN <<"susp_ext">> ELSE << >>)
    \o (IF f.ent >= 7500 /\ f.size > HIGH_ENTROPY_MIN_SIZE THEN <<"high_entropy">> ELSE << >>)

EXPLICIT_REASONS == {"pe_header", "js_keywords", "vbs_keywords", "ps1_keywords", "susp_ext"}

\* forensics.py 431: some explicit tag occurs in the joined reasons.
is_explicit(reasons) == Range(reasons) \cap EXPLICIT_REASONS # {}

RECURSIVE TotalSize(_)
TotalSize(recs) == IF recs = << >> THEN 0 ELSE Head(recs).size + TotalSize(Tail(recs))

\* The files the enumeration may yield next.  An image holds one file of
\* any kind followed by copies of one filler file; together they fit into
\* the image.
NextFiles ==
    { f \in { WithMl(k, ml) : k \in FileKinds, ml \in RawScores \cup {Fail} } :
        /\ Len(records) < MaxFiles
        /\ TotalSize(records) + f.size <= contents.len
        /\ Len(records) >= 1 => f.name \in FillerNames /\ f.ml \in FillerScores
        /\ Len(records) >= 2 => f = records[Len(records)].file }

\* forensics.py 349-451: one regular file of the volume being traversed:
\* record, signals, suspicious item, per-file score, sampling pools.
ARI_VisitFile ==
    /\ pc = "ari_traverse"
    /\ \E f \in NextFiles, chunk_ok \in BOOLEAN :
         LET reasons == Reasons(f)
         IN \* the second read of the head (line 419) matters only for a
            \* flagged file the scorer can score; it fails for the first
            \* file only
            /\ ~chunk_ok => Len(records) = 0 /\ reasons # << >> /\ f.ml # Fail
            /\ records' = Append(records, [size |-> f.size, file |-> f])
            /\ suspicious_items' =
                 IF reasons # << >>
                 THEN Append(suspicious_items, [ext |-> f.ext, size |-> f.size, reason |-> reasons])
                 ELSE suspicious_items
            /\ file_scores' =
                 IF reasons # << >> /\ chunk_ok /\ f.ml # Fail
                 THEN Append(file_scores, [path |-> Len(records) + 1, score |-> f.ml])
                 ELSE file_scores
            /\ IF is_explicit(reasons) /\ Len(suspicious_first) < MAX_SAMPLES
               THEN /\ suspicious_first' =
                         Append(suspicious_first,
                                [head |-> f, size |-> f.size, reason |-> reasons])
                    /\ UNCHANGED largest_rest
               ELSE /\ largest_rest' = Append(largest_rest, [size |-> f.size, entry |-> f])
                    /\ UNCHANGED suspicious_first
    /\ UNCHANGED <<aux_vars, raw_head, entry, contents, upload, pc, tmp, img_info, attempt, slept, nparts, fs_objects, vol,
                   parse_errors, validation_msg, result, raised, af_vars, response>>

\* forensics.py 346, 458-469: the iteration of a volume ends; after the last
\* volume the finally block removes the temporary file.
ARI_VolumeDone ==
    /\ pc = "ari_traverse"
    /\ IF vol < Len(fs_objects)
       THEN /\ vol' = vol + 1
            /\ UNCHANGED <<pc, tmp>>
       ELSE /\ tmp' \in Cleanup(tmp, img_info)
            /\ pc' = "ari_build"
            /\ UNCHANGED vol
    /\ UNCHANGED <<aux_vars, raw_head, entry, contents, upload, img_info, attempt, slept, nparts, fs_objects, parse_errors,
                   validation_msg, trav_vars, result, raised, af_vars, response>>

\* ------------------------------------------- after the traversal
With(r, k, v) == [x \in DOMAIN r \cup {k} |-> IF x = k THEN v ELSE r[x]]
Without(r, k) == [x \in DOMAIN r \ {k} |-> r[x]]
Has(r, k) == k \in DOMAIN r

\* forensics.py 487: list.sort(key=size, reverse=True) is stable: it keeps
\* the traversal order among items of equal size.
RECURSIVE InsertBySize(_, _)
InsertBySize(sorted, x) ==
    IF sorted = << >> THEN <<x>>
    ELSE IF Head(sorted).size >= x.size
         THEN <<Head(sorted)>> \o InsertBySize(Tail(sorted), x)
         ELSE <<x>> \o sorted

RECURSIVE SortBySizeDesc(_)
SortBySizeDesc(items) ==
    IF items = << >> THEN << >>
    ELSE InsertBySize(SortBySizeDesc(SubSeq(items, 1, Len(items) - 1)), items[Len(items)])

\* Mutant of PickMore: the cap on the number of samples is not observed.
RECURSIVE PickMoreUncapped(_, _, _, _)
PickMoreUncapped(sorted, i, unreadable, room) ==
    IF i > Len(sorted) THEN << >>
    ELSE IF i \in unreadable THEN PickMoreUncapped(sorted, i + 1, unreadable, room)
    ELSE <<[head |-> sorted[i].entry, size |-> sorted[i].size, reason |-> << >>]>>
         \o PickMoreUncapped(sorted, i + 1, unreadable, room)

\* forensics.py 488-502: items are taken in order until the cap is reached;
\* an item whose head cannot be read again (its index is in unreadable) is
\* passed over.
RECURSIVE PickMore(_, _, _, _)
PickMore(sorted, i, unreadable, room) ==
    IF i > Len(sorted) \/ room <= 0 THEN << >>
    ELSE IF i \in unreadable THEN PickMore(sorted, i + 1, unreadable, room)
    ELSE <<[head |-> sorted[i].entry, size |-> sorted[i].size, reason |-> << >>]>>
         \o PickMore(sorted, i + 1, unreadable, room - 1)

\* forensics.py 485-505
PickedSamples(first, rest, unreadable) ==
    first \o PickMore(SortBySizeDesc(rest), 1, unreadable, MAX_SAMPLES - Len(first))

\* Which of the n selection-time reads fail: none, the first, or all.
RereadFailures(n) == { {}, 1 .. n } \cup (IF n > 1 THEN { {1} } ELSE {})

FIVE_MIB == 5242880

\* forensics.py 515-525: one [raw_image] item per class present, in order.
SuspiciousFallback(present, size) ==
    LET RECURSIVE Build(_)
        Build(i) ==
          IF i > Len(FallbackClasses) THEN << >>
          ELSE (IF FallbackClasses[i] \in present
                THEN <<[ext |-> FallbackExt[i], size |-> size,
                        reason |-> <<FallbackClasses[i]>>]>>
                ELSE << >>) \o Build(i + 1)
    IN Build(1)


\* forensics.py 507-541: no file was found; the raw buffer is inspected.
ARI_Fallback ==
    /\ pc = "ari_build"
    /\ Len(records) = 0
    /\ \E h \in RawHeads :
         /\ raw_head' = h
         /\ result' = [num_files |-> 0,
                       suspicious_detail |-> SuspiciousFallback(h.classes, contents.len),
                       fallback_entropy |-> entropy_head(contents, FIVE_MIB),
                       fallback_size |-> contents.len,
                       parse_errors |-> parse_errors,
                       validation_message |-> validation_msg,
                       samples |-> PickedSamples(suspicious_first, largest_rest, {})]
    /\ pc' = "ari_exit"
    /\ UNCHANGED <<aux_vars, entry, contents, upload, tmp, img_info, attempt, slept, nparts, fs_objects, vol,
                   parse_errors, validation_msg, trav_vars, raised, af_vars, response>>

\* forensics.py 543-550: the largest per-file score, kept only from 60 up.
ImageScoreMl(scores) ==
    LET values == [i \in DOMAIN scores |-> scores[i].score]
    IN IF scores = << >> THEN None
       ELSE IF MaxOfSeq(values) >= 60 THEN MaxOfSeq(values) ELSE None

\* forensics.py 565-581: the summary and its optional keys.
Summary(n, susp, msg, samples, errors, ml, scores) ==
    LET base == [num_files |-> n,
                 suspicious_detail |-> susp,
                 validation_message |-> msg,
                 samples |-> samples]
        s1 == IF errors # << >> THEN With(base, "parse_warnings", errors) ELSE base
        s2 == IF ml # None THEN With(s1, "ml_image_score", ml) ELSE s1
    IN IF scores # << >>
       THEN With(s2, "file_scores", SubSeq(scores, 1, Min(20, Len(scores))))
       ELSE s2

\* forensics.py 471-505, 543-584: timeline, samples and the summary when
\* files were found.
ARI_Summary ==
    /\ pc = "ari_build"
    /\ Len(records) > 0
    /\ \E unreadable \in RereadFailures(Len(largest_rest)) :
         result' = Summary(Len(records), suspicious_items, validation_msg,
                           PickedSamples(suspicious_first, largest_rest, unreadable),
                           parse_errors, ImageScoreMl(file_scores), file_scores)
    /\ pc' = "ari_exit"
    /\ UNCHANGED <<aux_vars, raw_head, entry, contents, upload, tmp, img_info, attempt, slept, nparts, fs_objects, vol,
                   parse_errors, validation_msg, trav_vars, raised, af_vars, response>>

\* ------------------------------------------------- the direct caller
\* A direct call of analyze_raw_image ends with its return or its exception.
ARI_Return ==
    /\ pc = "ari_exit"
    /\ entry = "analyze_raw_image"
    /\ response' = IF raised = "none"
                   THEN [status |-> 0, returned |-> TRUE]
                   ELSE [status |-> 0, returned |-> FALSE]
    /\ pc' = "done"
    /\ UNCHANGED <<aux_vars, raw_head, entry, contents, upload, ari_vars, af_vars>>

\* ------------------------------------------ analyze_file, RAW image path
\* main.py 337-341: ValueError becomes 400, any other exception 500.
AF_RawFailed ==
    /\ pc = "ari_exit"
    /\ entry = "analyze_file"
    /\ raised # "none"
    /\ response' = IF raised = "ValueError"
                   THEN [status |-> 400, detail |-> "ValueError"]
                   ELSE [status |-> 500, detail |-> "RAW image analysis failed"]
    /\ pc' = "done"
    /\ UNCHANGED <<aux_vars, raw_head, entry, contents, upload, ari_vars, af_vars>>

\* ml_pipeline.py 312-328 (the definition in force): nudges for a PE header,
\* macro/PowerShell markers, a URL with base64; the cap for benign-looking
\* names; the clamp to [0,100].
postprocess_content_aware(raw_score, f) ==
    LET s1 == IF f.is_pe THEN Max(raw_score, 65) ELSE raw_score
        s2 == IF f.macro_pwsh THEN Max(s1, 55) ELSE s1
        s3 == IF f.url_b64 THEN Max(s2, 45) ELSE s2
        s4 == IF f.benignish /\ ~(f.is_pe \/ f.macro_pwsh) THEN Min(s3, 40) ELSE s3
    IN Max(0, Min(100, s4))

\* Mutant of TriageScores: a sample the scorer fails on is scored 0.
RECURSIVE TriageScoresFailAsZero(_)
TriageScoresFailAsZero(samples) ==
    IF samples = << >> THEN << >>
    ELSE LET s == Head(samples)
             raw == IF s.head.ml = Fail THEN 0 ELSE s.head.ml
         IN <<[score_raw |-> raw,
               score |-> postprocess_content_aware(raw, s.head),
               reason |-> s.reason]>>
            \o TriageScoresFailAsZero(Tail(samples))

\* Mutant of TriageScores: the score entry is the sample itself, head
\* included, with the scores added.
RECURSIVE TriageScoresKeepHead(_)
TriageScoresKeepHead(samples) ==
    IF samples = << >> THEN << >>
    ELSE LET s == Head(samples)
         IN (IF s.head.ml = Fail THEN << >>
             ELSE <<[head |-> s.head,
                     score_raw |-> s.head.ml,
                     score |-> postprocess_content_aware(s.head.ml, s.head),
                     reason |-> s.reason]>>)
            \o TriageScoresKeepHead(Tail(samples))

\* main.py 350-363: the samples the scorer could score, in order.
RECURSIVE TriageScores(_)
TriageScores(samples) ==
    IF samples = << >> THEN << >>
    ELSE LET s == Head(samples)
         IN (IF s.head.ml = Fail THEN << >>
             ELSE <<[score_raw |-> s.head.ml,
                     score |-> postprocess_content_aware(s.head.ml, s.head),
                     reason |-> s.reason]>>)
            \o TriageScores(Tail(samples))

ScoresOf(scored) == [i \in DOMAIN scored |-> scored[i].score]

\* Mutant of SampleMax: the sample scores are added up instead.
SampleMaxSum(scored) ==
    LET RECURSIVE Sum(_)
        Sum(i) == IF i = 0 THEN 0 ELSE scored[i].score + Sum(i - 1)
    IN Sum(Len(scored))

\* main.py 367: max_ml, the largest adjusted sample score.
SampleMax(scored) == MaxOfSeq(ScoresOf(scored))

\* Mutant of GateModel: the benign clamp is applied to trusted scores too.
GateModelAlwaysClamp(scored) ==
    IF scored = << >> THEN None
    ELSE Max(5, Min(30, SampleMax(scored)))

\* main.py 366-375: the gate on the model's opinion.
GateModel(scored) ==
    IF scored = << >> THEN None
    ELSE LET max_ml == SampleMax(scored)
             has_any_reason == \E i \in DOMAIN scored : scored[i].reason # << >>
         IN IF has_any_reason \/ max_ml >= 60
            THEN max_ml
            ELSE Max(5, Min(30, max_ml))

\* main.py 390-394
has_reason(detail, tag) == \E i \in DOMAIN detail : tag \in Range(detail[i].reason)

pe_hits(detail) == has_reason(detail, "pe_header")
script_hits(detail) ==
    has_reason(detail, "js_keywords") \/ has_reason(detail, "vbs_keywords")
      \/ has_reason(detail, "ps1_keywords")
ext_hits(detail) == has_reason(detail, "susp_ext")
any_hits(detail) == pe_hits(detail) \/ script_hits(detail) \/ ext_hits(detail)

\* Mutant of HeuristicScore: every suspicious item counts for the bonus.
HeuristicScoreAllItems(detail) ==
    LET score == (IF pe_hits(detail) THEN 35 ELSE 0)
                 + (IF script_hits(detail) THEN 25 ELSE 0)
                 + (IF ext_hits(detail) THEN 15 ELSE 0)
                 + Min(25, 6 * Len(detail))
    IN Max(20, Min(95, score))

\* main.py 401-407
HeuristicScore(detail) ==
    LET score == (IF pe_hits(detail) THEN 35 ELSE 0)
                 + (IF script_hits(detail) THEN 25 ELSE 0)
                 + (IF ext_hits(detail) THEN 15 ELSE 0)
                 + Min(25, 6 * Max(0, Len(detail) - 1))
    IN Max(20, Min(95, score))

\* Mutant of EntropyScore: the difference to 7.6 is not floored at zero.
EntropyScoreNoFloor(ent, size_hint) ==
    IF ent > 7500
    THEN LET base == 5 + ((Min(400, ent - 7600) * 625) \div 10000)
             size_bonus == IF size_hint < SIZE_BONUS_MIN THEN 0 ELSE 5
         IN Max(5, Min(30, base + size_bonus))
    ELSE 5

\* main.py 413-418; ent in thousandths: int(x * 62.5) = (1000x * 625) \div 10000
\* for x >= 0.
EntropyScore(ent, size_hint) ==
    IF ent > 7500
    THEN LET base == 5 + ((Max(0, Min(400, ent - 7600)) * 625) \div 10000)
             size_bonus == IF size_hint < SIZE_BONUS_MIN THEN 0 ELSE 5
         IN Max(5, Min(30, base + size_bonus))
    ELSE 5

\* main.py 400-419: the score before the override blocks.
CurrentScore(model, res) ==
    IF model = None /\ any_hits(res.suspicious_detail)
    THEN HeuristicScore(res.suspicious_detail)
    ELSE IF model = None
         THEN EntropyScore(IF Has(res, "fallback_entropy") THEN res.fallback_entropy ELSE 0,
                           IF Has(res, "fallback_size") THEN res.fallback_size ELSE 0)
         ELSE model

\* main.py 421-433: the guarded override.
GuardedOverride(risk, res) ==
    IF Has(res, "ml_image_score")
    THEN LET ml_override == res.ml_image_score
         IN IF any_hits(res.suspicious_detail) \/ ml_override >= 60
            THEN Max(risk, Min(95, ml_override))
            ELSE Max(5, Min(Min(IF risk = 0 THEN 5 ELSE risk, 30), ml_override))
    ELSE risk

\* main.py 435-441: the second override.
FinalOverride(risk, res) ==
    IF Has(res, "ml_image_score")
    THEN Max(5, Min(95, res.ml_image_score))
    ELSE risk

\* main.py 377-384: file_scores is replaced when there were samples, and the
\* samples are removed.
Scrubbed(res, scored) ==
    LET r1 == IF Has(res, "samples") /\ res.samples # << >>
              THEN With(res, "file_scores", scored)
              ELSE res
    IN IF Has(r1, "samples") THEN Without(r1, "samples") ELSE r1

\* main.py 447-464
ResultOut(res, risk) ==
    LET base == [num_files |-> res.num_files, risk_score |-> risk]
        b1 == IF Has(res, "file_scores") THEN With(base, "file_scores", res.file_scores) ELSE base
    IN IF Has(res, "ml_image_score") THEN With(b1, "ml_image_score", res.ml_image_score) ELSE b1

\* main.py 343-494: triage of the samples, the score, the response.
AF_Aggregate ==
    /\ pc = "ari_exit"
    /\ entry = "analyze_file"
    /\ raised = "none"
    /\ LET samples == IF Has(result, "samples") THEN result.samples ELSE << >>
           scored == TriageScores(samples)
           gated == GateModel(scored)
           res == Scrubbed(result, scored)
           current == CurrentScore(gated, res)
           final == FinalOverride(GuardedOverride(current, res), res)
       IN /\ sample_scores' = scored
          /\ risk_model' = gated
          /\ risk_current' = current
          /\ img_risk' = final
          /\ result' = res
          /\ \E saved \in BOOLEAN : response' = Delivered(ResultOut(res, final), saved)
    /\ pc' = "done"
    /\ UNCHANGED <<aux_vars, raw_head, entry, contents, upload, tmp, img_info, attempt, slept, nparts, fs_objects, vol,
                   parse_errors, validation_msg, trav_vars, raised>>

Next ==
    \/ AF_RejectEmpty
    \/ AF_RejectTooLarge
    \/ AF_DemoOverride
    \/ AF_CallRaw
    \/ AF_NonRaw
    \/ ARI_Empty
    \/ ARI_NoPytsk
    \/ ARI_Validate
    \/ ARI_Mkstemp
    \/ ARI_OpenOk
    \/ ARI_OpenFail
    \/ ARI_FsDirect
    \/ ARI_VolumeInfo
    \/ ARI_VolumeInfoFail
    \/ ARI_Partition
    \/ ARI_PartitionsDone
    \/ ARI_Unreadable
    \/ ARI_StartTraversal
    \/ ARI_VisitFile
    \/ ARI_VolumeDone
    \/ ARI_Fallback
    \/ ARI_Summary
    \/ ARI_Return
    \/ AF_RawFailed
    \/ AF_Aggregate

Spec == Init /\ [][Next]_vars

\* ------------------------------------------------------- the timeline
\* The main variables while a part of analyze_raw_image is followed on its
\* own: an opened, mounted image in the middle of the call.
MainIdle ==
    /\ entry = "analyze_raw_image"
    /\ contents = CHOOSE b \in Buffers : b.len = 4096
    /\ upload = [raw |-> TRUE, susp |-> FALSE, ben |-> FALSE]
    /\ pc = "part"
    /\ tmp = "exists"
    /\ img_info = "open"
    /\ attempt = 0
    /\ slept = << >>
    /\ nparts = 0
    /\ vol = 1
    /\ fs_objects = <<"/">>
    /\ parse_errors = << >>
    /\ validation_msg = "MBR"
    /\ raw_head = Unread
    /\ records = << >>
    /\ suspicious_items = << >>
    /\ file_scores = << >>
    /\ suspicious_first = << >>
    /\ largest_rest = << >>
    /\ result = NoResult
    /\ raised = "none"
    /\ sample_scores = << >>
    /\ risk_model = None
    /\ risk_current = None
    /\ img_risk = None
    /\ response = NoResponse

\* Values of meta.crtime and meta.mtime; 0 stands for a missing or zero one.
MetaTimes == {0, 1, 2}

\* forensics.py 363-364: int(getattr(meta, ..., 0) or 0) or None.
TimeOrNone(v) == IF v = 0 THEN None ELSE v

\* forensics.py 360-377: the FileRecord of the next file of the traversal.
\* When meta cannot be read (366-367) both times stay None, as for 0.
TL_Record ==
    /\ tl_pc = "collect"
    /\ Len(tl_records) < MaxTimeline
    /\ \E crtime \in MetaTimes, mtime \in MetaTimes :
         tl_records' = Append(tl_records, [path |-> Len(tl_records) + 1,
                                           mtime |-> TimeOrNone(mtime),
                                           ctime |-> TimeOrNone(crtime)])
    /\ UNCHANGED <<main_vars, unit_vars, hash_vars, tl_pc, timeline>>

\* Mutant of TimelineKey: oldest modification first.
TimelineKeyAscending(item) ==
    << IF item.mtime = None THEN 1 ELSE 0,
       IF item.mtime # None THEN item.mtime ELSE 0,
       IF item.ctime = None THEN 1 ELSE 0,
       IF item.ctime # None THEN -item.ctime ELSE 0 >>

\* forensics.py 477-482: the sort key; False sorts before True.
TimelineKey(item) ==
    << IF item.mtime = None THEN 1 ELSE 0,
       IF item.mtime # None THEN -item.mtime ELSE 0,
       IF item.ctime = None THEN 1 ELSE 0,
       IF item.ctime # None THEN -item.ctime ELSE 0 >>

\* Python's order of tuples: the first differing component decides.
RECURSIVE TupleLess(_, _)
TupleLess(a, b) ==
    IF a = << >> \/ b = << >> THEN a = << >> /\ b # << >>
    ELSE IF Head(a) # Head(b) THEN Head(a) < Head(b)
    ELSE TupleLess(Tail(a), Tail(b))

\* forensics.py 476: list.sort is stable: an item goes behind the items
\* whose key is not greater.
RECURSIVE InsertByKey(_, _)
InsertByKey(sorted, x) ==
    IF sorted = << >> THEN <<x>>
    ELSE IF TupleLess(TimelineKey(x), TimelineKey(Head(sorted)))
         THEN <<x>> \o sorted
         ELSE <<Head(sorted)>> \o InsertByKey(Tail(sorted), x)

RECURSIVE SortTimeline(_)
SortTimeline(items) ==
    IF items = << >> THEN << >>
    ELSE InsertByKey(SortTimeline(SubSeq(items, 1, Len(items) - 1)), items[Len(items)])

\* forensics.py 471-483: the timeline is built from the records and sorted.
TL_Sort ==
    /\ tl_pc = "collect"
    /\ timeline' = SortTimeline(tl_records)
    /\ tl_pc' = "sorted"
    /\ UNCHANGED <<main_vars, unit_vars, hash_vars, tl_records>>

TimelineInit ==
    /\ MainIdle
    /\ HashIdle
    /\ UnitsIdle
    /\ tl_pc = "collect" /\ tl_records = << >> /\ timeline = << >>

TimelineNext == TL_Record \/ TL_Sort

SpecTimeline == TimelineInit /\ [][TimelineNext]_vars

\* -------------------------------------------------------- the hashing
CHUNK_SIZE == 1048576

\* Sizes meta.size reports: empty, less than a chunk, a chunk, more.
FileSizes == {0, 524288, 1048576, 1572864}

\* read_random raising, as an entry of reads.
ReadRaised == -2

\* What read_random(offset, n) can do: raise, or return no byte, all n bytes
\* or, of a whole chunk, the first half.
ReadOutcomes(n) == {ReadRaised, 0, n} \cup (IF n = CHUNK_SIZE THEN {n \div 2} ELSE {})

\* forensics.py 350-358: the next file of the traversal reaches _hash_file;
\* 139-144: meta is read and the hasher set up.  When meta cannot be read
\* both handlers fail alike and (0, None) is returned (152-158).
H_Open ==
    /\ h_pc = "next"
    /\ Len(h_records) < MaxHashFiles
    /\ \E f \in [size : FileSizes, meta_ok : BOOLEAN] :
         /\ tsk_file' = f
         /\ IF f.meta_ok
            THEN /\ h_pc' = "read"
                 /\ hash_ret' = NoReturn
            ELSE /\ h_pc' = "ret"
                 /\ hash_ret' = [size |-> 0, sha256 |-> None]
    /\ offset' = 0
    /\ hasher' = 0
    /\ reads' = << >>
    /\ UNCHANGED <<main_vars, unit_vars, tl_vars, h_records, all_hashes, read_log>>

\* Mutant of H_Read: a failing read ends the loop like a zero-byte read and
\* the digest of what was read is returned.
H_ReadKeepsPartial ==
    /\ h_pc = "read"
    /\ offset < tsk_file.size
    /\ \E out \in ReadOutcomes(Min(CHUNK_SIZE, tsk_file.size - offset)) :
         /\ reads' = Append(reads, out)
         /\ IF out = ReadRaised \/ out = 0
            THEN /\ hash_ret' = [size |-> tsk_file.size, sha256 |-> hasher]
                 /\ h_pc' = "ret"
                 /\ UNCHANGED <<offset, hasher>>
            ELSE /\ hasher' = hasher + out
                 /\ offset' = offset + out
                 /\ UNCHANGED <<h_pc, hash_ret>>
    /\ UNCHANGED <<main_vars, unit_vars, tl_vars, tsk_file, h_records, all_hashes, read_log>>

\* forensics.py 145-150, 152-156: one pass of the read loop.  A read that
\* raises ends _hash_file with (size, None); a zero-byte read ends the loop
\* with the digest of what was read; other data is hashed.
H_Read ==
    /\ h_pc = "read"
    /\ offset < tsk_file.size
    /\ \E out \in ReadOutcomes(Min(CHUNK_SIZE, tsk_file.size - offset)) :
         /\ reads' = Append(reads, out)
         /\ IF out = ReadRaised
            THEN /\ hash_ret' = [size |-> tsk_file.size, sha256 |-> None]
                 /\ h_pc' = "ret"
                 /\ UNCHANGED <<offset, hasher>>
            ELSE IF out = 0
            THEN /\ hash_ret' = [size |-> tsk_file.size, sha256 |-> hasher]
                 /\ h_pc' = "ret"
                 /\ UNCHANGED <<offset, hasher>>
            ELSE /\ hasher' = hasher + out
                 /\ offset' = offset + out
                 /\ UNCHANGED <<h_pc, hash_ret>>
    /\ UNCHANGED <<main_vars, unit_vars, tl_vars, tsk_file, h_records, all_hashes, read_log>>

\* forensics.py 145, 151: the whole file was read.
H_Finish ==
    /\ h_pc = "read"
    /\ offset >= tsk_file.size
    /\ hash_ret' = [size |-> tsk_file.size, sha256 |-> hasher]
    /\ h_pc' = "ret"
    /\ UNCHANGED <<main_vars, unit_vars, tl_vars, tsk_file, offset, hasher, reads, h_records,
                   all_hashes, read_log>>

\* forensics.py 358, 369-377, 450-451: the FileRecord is appended, and an
\* entry of the hashes list if there is a digest.
H_Record ==
    /\ h_pc = "ret"
    /\ LET path == Len(h_records) + 1
       IN /\ h_records' = Append(h_records, [path |-> path, size |-> hash_ret.size,
                                             sha256 |-> hash_ret.sha256])
          /\ all_hashes' = IF hash_ret.sha256 # None
                           THEN Append(all_hashes, [path |-> path,
                                                    sha256 |-> hash_ret.sha256])
                           ELSE all_hashes
    /\ read_log' = Append(read_log, [meta_ok |-> tsk_file.meta_ok, size |-> tsk_file.size,
                                     reads |-> reads])
    /\ h_pc' = "next"
    /\ UNCHANGED <<main_vars, unit_vars, tl_vars, tsk_file, offset, hasher, reads, hash_ret>>

HashInit ==
    /\ MainIdle
    /\ TimelineIdle
    /\ UnitsIdle
    /\ h_pc = "next" /\ tsk_file = NoFile /\ offset = 0 /\ hasher = 0 /\ reads = << >>
    /\ hash_ret = NoReturn /\ h_records = << >> /\ all_hashes = << >> /\ read_log = << >>

HashNext == H_Open \/ H_Read \/ H_Finish \/ H_Record

SpecHash == HashInit /\ [][HashNext]_vars

\* ------------------------------------------- the signals of one file
MAX_READ == 1048576
SAMPLE_SLICE == 262144

\* The files the extractor is run on: whether the first MiB starts with MZ
\* and holds a keyword of each class, its entropy in thousandths of a bit,
\* the extension of the path and the size in the metadata.
SigSizes == {50000, 50001, 262145, 2000000}
SigFiles ==
    { [mz |-> a, js |-> b, vbs |-> c, ps1 |-> d, ext |-> x, ent |-> e, size |-> n] :
        a \in BOOLEAN, b \in BOOLEAN, c \in BOOLEAN, d \in BOOLEAN,
        x \in {".exe", ".txt"}, e \in {7499, 7500}, n \in SigSizes }
    \cup { [EmptyFile EXCEPT !.ext = x] : x \in {".exe", ".txt"} }

\* forensics.py 380-383: the head is the first MiB of the file, or b"" when
\* the file is empty or the read raises.
SX_ReadHead ==
    /\ sx_pc = "head"
    /\ \E ok \in BOOLEAN :
         /\ sx_file.size = 0 => ok
         /\ sx_head' =
              IF sx_file.size > 0 /\ ok
              THEN [len |-> Min(MAX_READ, sx_file.size), is_pe |-> sx_file.mz,
                    is_js |-> sx_file.js, is_vbs |-> sx_file.vbs, is_ps1 |-> sx_file.ps1,
                    ent |-> sx_file.ent]
              ELSE EmptyHead
    /\ sx_pc' = "signals"
    /\ UNCHANGED <<sig_rest, sx_file, sx_reasons, sx_items, sx_first, sx_rest, sx_samples>>

\* What Reasons is applied to: the flags and entropy of the head, the
\* extension of the path and the size of the record (forensics.py 384-390).
SignalsOf(file, head) ==
    [is_pe |-> head.is_pe, is_js |-> head.is_js, is_vbs |-> head.is_vbs,
     is_ps1 |-> head.is_ps1, ext |-> file.ext, ent |-> head.ent, size |-> file.size]

\* forensics.py 392-413
SX_Signals ==
    /\ sx_pc = "signals"
    /\ LET reasons == Reasons(SignalsOf(sx_file, sx_head))
       IN /\ sx_reasons' = reasons
          /\ sx_items' =
               IF reasons # << >>
               THEN Append(sx_items, [ext |-> sx_file.ext, size |-> sx_file.size,
                                      reason |-> reasons])
               ELSE sx_items
    /\ sx_pc' = "pool"
    /\ UNCHANGED <<sig_rest, sx_file, sx_head, sx_first, sx_rest, sx_samples>>

\* forensics.py 428-448: a file with an explicit reason is pooled with the
\* head the signals were read from; any other file with its entry.
SX_Pool ==
    /\ sx_pc = "pool"
    /\ IF is_explicit(sx_reasons) /\ Len(sx_first) < MAX_SAMPLES
       THEN /\ sx_first' = Append(sx_first, [head |-> sx_head.len, size |-> sx_file.size,
                                             reason |-> sx_reasons])
            /\ UNCHANGED sx_rest
       ELSE /\ sx_rest' = Append(sx_rest, [size |-> sx_file.size])
            /\ UNCHANGED sx_first
    /\ sx_pc' = "finalize"
    /\ UNCHANGED <<sig_rest, sx_file, sx_head, sx_reasons, sx_items, sx_samples>>

\* forensics.py 485-505 for the one pooled file: an item of largest_rest is
\* read again, SAMPLE_SLICE bytes at most, and dropped when the read raises.
SX_Finalize ==
    /\ sx_pc = "finalize"
    /\ \E ok \in BOOLEAN :
         /\ sx_rest = << >> => ok
         /\ sx_samples' =
              sx_first \o
              (IF sx_rest # << >> /\ ok
               THEN <<[head |-> Min(SAMPLE_SLICE, sx_rest[1].size), size |-> sx_rest[1].size,
                       reason |-> << >>]>>
               ELSE << >>)
    /\ sx_pc' = "done"
    /\ UNCHANGED <<sig_rest, sx_file, sx_head, sx_reasons, sx_items, sx_first, sx_rest>>

SignalsInit ==
    /\ MainIdle
    /\ TimelineIdle
    /\ HashIdle
    /\ ValidateIdle
    /\ WalkIdle
    /\ KeywordsIdle
    /\ AuthIdle
    /\ sx_pc = "head" /\ sx_file \in SigFiles /\ sx_head = EmptyHead /\ sx_reasons = << >>
    /\ sx_items = << >> /\ sx_first = << >> /\ sx_rest = << >> /\ sx_samples = << >>

SignalsNext == SX_ReadHead \/ SX_Signals \/ SX_Pool \/ SX_Finalize

SpecSignals == SignalsInit /\ [][SignalsNext]_vars

\* ------------------------------------------- the validator on its own
\* Buffer lengths around every length the validator compares with.
ValLens == {0, 511, 512, 519, 520, 1028, 1029, 1082, 1083, 1024000, 1024001}
Signatures == {"NTFS", "FAT32", "FAT16", "FAT12", "EXT", "HFS+"}

\* The buffers: mbr, gpt and sig say what bytes 510-511, 512-519 and the
\* offset of a filesystem signature hold (the bytes lie inside the buffer);
\* binary says that under 80% of the first 10,000 bytes are text.
ValBuffers ==
    { b \in [len : ValLens, mbr : BOOLEAN, gpt : BOOLEAN, sig : Signatures \cup {NoSig},
             binary : BOOLEAN] :
        /\ b.mbr => b.len >= 512
        /\ b.gpt => b.len >= 520
        /\ b.sig # NoSig => SigEnd(b.sig) <= b.len
        /\ b.len = 0 => ~b.binary }

V_Validate ==
    /\ v_pc = "call"
    /\ v_ret' = validate_disk_image(file_bytes)
    /\ v_pc' = "done"
    /\ UNCHANGED <<val_rest, file_bytes>>

ValidateInit ==
    /\ MainIdle
    /\ TimelineIdle
    /\ HashIdle
    /\ SignalsIdle
    /\ WalkIdle
    /\ KeywordsIdle
    /\ AuthIdle
    /\ v_pc = "call" /\ file_bytes \in ValBuffers /\ v_ret = NoVerdict

ValidateNext == V_Validate

SpecValidate == ValidateInit /\ [][ValidateNext]_vars

\* ------------------------------------------------ the walk of a volume
\* Two volumes of three directories.  In "tree", / holds a, d/ and z, d
\* holds b and up/, and up holds c.  In "cyclic" the entry up of d resolves
\* to the root directory again, as in a corrupted image.
DirEntry(name, to) == [kind |-> "dir", name |-> name, to |-> to]
FileEntry(name) == [kind |-> "file", name |-> name, to |-> ""]
Entries(fsv, dir) ==
    CASE dir = "root" -> <<FileEntry("a"), DirEntry("d", "d"), FileEntry("z")>>
      [] dir = "d"    -> <<FileEntry("b"),
                           DirEntry("up", IF fsv = "cyclic" THEN "root" ELSE "e")>>
      [] OTHER        -> <<FileEntry("c")>>

Top == w_stack[Len(w_stack)]
Advance(stack) == [stack EXCEPT ![Len(stack)].idx = @ + 1]
Pop(stack) == SubSeq(stack, 1, Len(stack) - 1)
AtEntry(kind) ==
    /\ w_pc = "walk"
    /\ w_stack # << >>
    /\ Top.idx <= Len(Entries(w_fs, Top.dir))
    /\ Entries(w_fs, Top.dir)[Top.idx].kind = kind
Swallow(kind, dir, name) ==
    w_swallowed' = Append(w_swallowed, [kind |-> kind, dir |-> dir, name |-> name])
MayFail == Len(w_swallowed) < MaxFailures

\* forensics.py 91-96: the root directory is opened; when that raises, a
\* warning is logged and the generator ends.
W_OpenRoot ==
    /\ w_pc = "open"
    /\ \E ok \in BOOLEAN :
         IF ok
         THEN /\ w_stack' = <<[dir |-> "root", idx |-> 1]>>
              /\ w_pc' = "walk"
              /\ UNCHANGED w_swallowed
         ELSE /\ Swallow("open_dir", "root", "/")
              /\ w_pc' = "done"
              /\ UNCHANGED w_stack
    /\ UNCHANGED <<walk_rest, w_fs, w_yield, w_errors>>

\* forensics.py 98-131 and 347-356 for a regular file: the entry is
\* yielded and opened; an entry that raises is passed over by the
\* generator (129-131), a yielded entry that neither as_file nor fs.open
\* can open by the caller (349-356).
W_File ==
    /\ AtEntry("file")
    /\ \E out \in {"ok", "entry_failed", "open_failed"} :
         LET e == Entries(w_fs, Top.dir)[Top.idx]
         IN /\ out # "ok" => MayFail
            /\ w_yield' =
                 IF out = "entry_failed" THEN w_yield
                 ELSE Append(w_yield, [name |-> e.name, depth |-> Len(w_stack),
                                       opened |-> out = "ok"])
            /\ IF out = "ok" THEN UNCHANGED w_swallowed
               ELSE Swallow(out, Top.dir, e.name)
    /\ w_stack' = Advance(w_stack)
    /\ UNCHANGED <<walk_rest, w_pc, w_fs, w_errors>>

\* forensics.py 118-124 for a directory: it is opened and walked by a
\* nested generator; when open_dir raises, or the interpreter refuses the
\* nesting, the except clause moves on to the next entry.
W_Dir ==
    /\ AtEntry("dir")
    /\ \E ok \in BOOLEAN :
         LET e == Entries(w_fs, Top.dir)[Top.idx]
         IN /\ ~ok => MayFail
            /\ IF ~ok
               THEN /\ Swallow("open_dir", e.to, e.name)
                    /\ w_stack' = Advance(w_stack)
               ELSE IF Len(w_stack) >= MaxDepth
               THEN /\ Swallow("recursion", e.to, e.name)
                    /\ w_stack' = Advance(w_stack)
               ELSE /\ w_stack' = Append(Advance(w_stack), [dir |-> e.to, idx |-> 1])
                    /\ UNCHANGED w_swallowed
    /\ UNCHANGED <<walk_rest, w_pc, w_fs, w_yield, w_errors>>

\* Iterating a directory raises.  In a nested generator the exception
\* reaches the except clause of the parent (123-124), which moves on; in
\* the outermost one it reaches analyze_raw_image (453-456), which records
\* a traversal error and leaves the volume.
W_IterFail ==
    /\ w_pc = "walk"
    /\ w_stack # << >>
    /\ MayFail
    /\ Swallow("iter", Top.dir, "")
    /\ w_stack' = Pop(w_stack)
    /\ IF Len(w_stack) = 1
       THEN /\ w_errors' = Append(w_errors, "Traversal error")
            /\ w_pc' = "done"
       ELSE UNCHANGED <<w_errors, w_pc>>
    /\ UNCHANGED <<walk_rest, w_fs, w_yield>>

\* The directory is exhausted: the generator ends, and with the outermost
\* one the walk of the volume.
W_Return ==
    /\ w_pc = "walk"
    /\ w_stack # << >>
    /\ Top.idx > Len(Entries(w_fs, Top.dir))
    /\ w_stack' = Pop(w_stack)
    /\ w_pc' = IF Len(w_stack) = 1 THEN "done" ELSE "walk"
    /\ UNCHANGED <<walk_rest, w_fs, w_yield, w_swallowed, w_errors>>

WalkInit ==
    /\ MainIdle
    /\ TimelineIdle
    /\ HashIdle
    /\ SignalsIdle
    /\ ValidateIdle
    /\ KeywordsIdle
    /\ AuthIdle
    /\ w_pc = "open" /\ w_fs \in {"tree", "cyclic"} /\ w_stack = << >> /\ w_yield = << >>
    /\ w_swallowed = << >> /\ w_errors = << >>

WalkNext == W_OpenRoot \/ W_File \/ W_Dir \/ W_IterFail \/ W_Return

SpecWalk == WalkInit /\ [][WalkNext]_vars

\* ------------------------------------------------- the keyword tests
\* How a keyword occurs in the bytes: not at all, in lower case, or only
\* with some letter in upper case (as in WScript or Invoke-Expression).
Occurrences == {"absent", "lower", "upper"}
\* kw in head.lower(), and kw in head.
InLowered(head, kw) == head[kw] # "absent"
InRaw(head, kw) == head[kw] = "lower"

\* forensics.py 383-387: every keyword is looked up in head.lower().
K_FileSignals ==
    /\ k_pc = "file"
    /\ k_file' =
         [js  |-> InLowered(k_head, "function") \/ InLowered(k_head, "eval(")
                  \/ InLowered(k_head, "<script"),
          vbs |-> InLowered(k_head, "createobject") \/ InLowered(k_head, "wscript"),
          ps1 |-> InLowered(k_head, "param(") \/ InLowered(k_head, "invoke-")]
    /\ k_pc' = "fallback"
    /\ UNCHANGED <<kw_rest, k_head, k_fallback>>

\* forensics.py 516-525: wscript and invoke- are looked up in head, the
\* other keywords in hl = head.lower().
K_Fallback ==
    /\ k_pc = "fallback"
    /\ k_fallback' =
         [js  |-> InLowered(k_head, "function") \/ InLowered(k_head, "eval(")
                  \/ InLowered(k_head, "<script"),
          vbs |-> InLowered(k_head, "createobject") \/ InRaw(k_head, "wscript"),
          ps1 |-> InLowered(k_head, "param(") \/ InRaw(k_head, "invoke-")]
    /\ k_pc' = "done"
    /\ UNCHANGED <<kw_rest, k_head, k_file>>

KeywordsInit ==
    /\ MainIdle
    /\ TimelineIdle
    /\ HashIdle
    /\ SignalsIdle
    /\ ValidateIdle
    /\ WalkIdle
    /\ AuthIdle
    /\ k_pc = "file" /\ k_head \in [KEYWORDS -> Occurrences] /\ k_file = NoFlags
    /\ k_fallback = NoFlags

KeywordsNext == K_FileSignals \/ K_Fallback

SpecKeywords == KeywordsInit /\ [][KeywordsNext]_vars

\* ------------------------------------------------ the user of a request
\* The requests: the endpoint called; the Authorization header (absent, of
\* another scheme, "Bearer " with no token, or "Bearer <token>"); whether the
\* token has the form of a JWT, whether its signature verifies under
\* JWT_SECRET with JWT_ALG, and the sub claim of its payload ("" when absent).
Requests ==
    { r \in [endpoint : {"history", "stats", "analyze"},
             auth : {"none", "basic", "bearer_empty", "bearer"},
             form : {"none", "malformed", "jwt"},
             signed : BOOLEAN,
             sub : {"", "alice", " Alice "}] :
        /\ (r.auth = "bearer") <=> (r.form # "none")
        /\ r.signed => r.form = "jwt"
        /\ r.sub # "" => r.form = "jwt" }

\* main.py 107: str(sub).strip().lower()
StripLower(sub) == IF sub = " Alice " THEN "alice" ELSE sub

\* main.py 88-109
user_id_from_request(r) ==
    IF r.auth # "bearer" THEN "anon"
    ELSE IF r.form # "jwt" THEN "anon"        \* both decodes raise
    ELSE \* the verified decode (102), or the one without signature (105)
         IF StripLower(r.sub) = "" THEN "anon" ELSE StripLower(r.sub)

RECURSIVE ScansOf(_, _)
ScansOf(docs, user) ==
    IF docs = << >> THEN << >>
    ELSE (IF Head(docs).user_id = user THEN <<Head(docs)>> ELSE << >>)
         \o ScansOf(Tail(docs), user)

\* main.py 255, 970, 983: every handler resolves the user first.
A_Resolve ==
    /\ a_pc = "resolve"
    /\ uid' = user_id_from_request(request)
    /\ a_pc' = "serve"
    /\ UNCHANGED <<auth_rest, request, scans, a_resp>>

\* main.py 968-979
A_History ==
    /\ a_pc = "serve"
    /\ request.endpoint = "history"
    /\ a_resp' = [kind |-> "history",
                  docs |-> IF uid = "anon" THEN << >> ELSE ScansOf(scans, uid)]
    /\ a_pc' = "done"
    /\ UNCHANGED <<auth_rest, request, uid, scans>>

\* main.py 981-1001: demo figures for a guest, the user's own otherwise.
A_Stats ==
    /\ a_pc = "serve"
    /\ request.endpoint = "stats"
    /\ a_resp' = IF uid = "anon" THEN [kind |-> "demo_stats", total_scans |-> 123]
                 ELSE [kind |-> "stats", total_scans |-> Len(ScansOf(scans, uid))]
    /\ a_pc' = "done"
    /\ UNCHANGED <<auth_rest, request, uid, scans>>

\* main.py 466-478: the scan is stored under the user unless it is anon; a
\* failing insert is logged and the response is sent all the same.
A_Persist ==
    /\ a_pc = "serve"
    /\ request.endpoint = "analyze"
    /\ \E saved \in BOOLEAN :
         scans' = IF uid # "anon" /\ saved
                  THEN Append(scans, [user_id |-> uid, filename |-> "upload.raw"])
                  ELSE scans
    /\ a_resp' = [kind |-> "analysis"]
    /\ a_pc' = "done"
    /\ UNCHANGED <<auth_rest, request, uid>>

AuthInit ==
    /\ MainIdle
    /\ TimelineIdle
    /\ HashIdle
    /\ SignalsIdle
    /\ ValidateIdle
    /\ WalkIdle
    /\ KeywordsIdle
    /\ a_pc = "resolve" /\ request \in Requests /\ uid = "anon"
    /\ scans \in { << >>, <<[user_id |-> "alice", filename |-> "case1.raw"]>> }
    /\ a_resp = NoReply

AuthNext == A_Resolve \/ A_History \/ A_Stats \/ A_Persist

SpecAuth == AuthInit /\ [][AuthNext]_vars

\* =================================================================== claims
\* The /analyze call took the RAW-image path to its response.
RawDone ==
    /\ pc = "done"
    /\ entry = "analyze_file"
    /\ upload.raw /\ ~is_demo(upload)
    /\ response.status = 200

Clamp(lo, hi, x) == IF x < lo THEN lo ELSE IF x > hi THEN hi ELSE x

\* Some suspicious item of the result carries the reason tag.
DetailHas(tag) ==
    \E i \in DOMAIN result.suspicious_detail :
      \E j \in DOMAIN result.suspicious_detail[i].reason :
        result.suspicious_detail[i].reason[j] = tag
PeFlag == DetailHas("pe_header")
ScriptFlag == DetailHas("js_keywords") \/ DetailHas("vbs_keywords") \/ DetailHas("ps1_keywords")
ExtFlag == DetailHas("susp_ext")
ExplicitHit == PeFlag \/ ScriptFlag \/ ExtFlag

\* m is the largest score among the scored samples.
IsSampleMax(m) ==
    /\ \E i \in DOMAIN sample_scores : sample_scores[i].score = m
    /\ \A i \in DOMAIN sample_scores : sample_scores[i].score <= m
SomeSampleReason == \E i \in DOMAIN sample_scores : Len(sample_scores[i].reason) > 0
ImageModelScore == "ml_image_score" \in DOMAIN result
NoModelScore == sample_scores = << >> /\ ~ImageModelScore

\* The heuristic score as the specification states it.
HeuristicFormula ==
    LET n == Len(result.suspicious_detail)
        bonus == IF 6 * (n - 1) > 25 THEN 25 ELSE IF n >= 1 THEN 6 * (n - 1) ELSE 0
    IN Clamp(20, 95, (IF PeFlag THEN 35 ELSE 0) + (IF ScriptFlag THEN 25 ELSE 0)
                       + (IF ExtFlag THEN 15 ELSE 0) + bonus)

\* The entropy and size the aggregator's entropy step reads from the result.
AggEntropy == IF "fallback_entropy" \in DOMAIN result THEN result.fallback_entropy ELSE 0
AggSize == IF "fallback_size" \in DOMAIN result THEN result.fallback_size ELSE 0

\* C1: every risk_score the RAW-image path of analyze_file produces, the
\* filename-based demo path included, is an integer in [0,100].
C1_RiskScoreInRange ==
    (pc = "done" /\ entry = "analyze_file" /\ upload.raw /\ response.status = 200)
      => /\ response.body.risk_score \in 0 .. 100
         /\ response.body.risk_score = img_risk

\* C1 witness: a trusted sample score of 100 with a whole-image model score
\* ends at the cap of 95.
C1_Witness ==
    /\ RawDone /\ ImageModelScore
    /\ IsSampleMax(100)
    /\ response.body.risk_score = 95

\* C2 as stated: with at least one sample score, a trusted maximum is the
\* final score; an untrusted one is clamped into [5,30] and is the final
\* score absent a whole-image model score.
C2_Original ==
    (RawDone /\ sample_scores # << >>) =>
      \E m \in 0 .. 100 :
        /\ IsSampleMax(m)
        /\ IF SomeSampleReason \/ m >= 60
           THEN img_risk = m
           ELSE /\ risk_model = Clamp(5, 30, m)
                /\ ~ImageModelScore => img_risk = risk_model

\* C2 amended: with at least one sample score, the model-derived score is the
\* maximum when it is trusted and the maximum clamped into [5,30] otherwise,
\* and absent a whole-image model score it is the final score.
C2_Amended ==
    (RawDone /\ sample_scores # << >>) =>
      \E m \in 0 .. 100 :
        /\ IsSampleMax(m)
        /\ risk_model = IF SomeSampleReason \/ m >= 60 THEN m ELSE Clamp(5, 30, m)
        /\ ~ImageModelScore => img_risk = risk_model

\* C2 witness: one sample scored 85 with a reason, explicit hits present,
\* no whole-image model score: the final score is 85, not the heuristic one.
C2_Witness ==
    /\ RawDone /\ ~ImageModelScore /\ ExplicitHit
    /\ Len(sample_scores) = 1
    /\ sample_scores[1].score = 85 /\ Len(sample_scores[1].reason) > 0
    /\ img_risk = 85 /\ HeuristicFormula # 85

\* C3 as stated: a whole-image model score only raises the score, to
\* min(95, max(current, model)), when trusted; otherwise the final score is
\* max(5, min(30, current, model)).
C3_OverrideOnlyRaises ==
    (RawDone /\ ImageModelScore) =>
      LET ml == result.ml_image_score
      IN IF ExplicitHit \/ ml >= 60
         THEN img_risk = Min(95, Max(risk_current, ml))
         ELSE img_risk = Max(5, Min(30, Min(risk_current, ml)))

\* C4: with no model score and an explicit hit, the score is the weighted
\* sum of the flags plus the capped count bonus, clamped to [20,95]; an
\* image whose only file starts with MZ and ends in .exe gets pe_header and
\* susp_ext and the score 50.
C4_HeuristicScore ==
    /\ (RawDone /\ NoModelScore /\ ExplicitHit) => img_risk = HeuristicFormula
    /\ (RawDone /\ NoModelScore /\ Len(records) = 1 /\ records[1].file.is_pe
          /\ records[1].file.ext = ".exe" /\ ~ScriptFlag)
         => /\ result.suspicious_detail[1].reason = <<"pe_header", "susp_ext">>
            /\ img_risk = 50

\* C4 witness: the single MZ .exe file, no model score, score 50.
C4_Witness ==
    /\ RawDone /\ NoModelScore
    /\ Len(records) = 1 /\ records[1].file.is_pe /\ records[1].file.ext = ".exe"
    /\ ~ScriptFlag
    /\ img_risk = 50

\* C5 as stated: with an explicit hit and untrusted sample scores (no scored
\* sample has a reason, maximum below 60) the score is the heuristic score,
\* at least 20.
C5_HeuristicBeatsUntrustedModel ==
    (RawDone /\ ExplicitHit /\ sample_scores # << >> /\ ~SomeSampleReason
       /\ \A i \in DOMAIN sample_scores : sample_scores[i].score < 60)
      => img_risk = HeuristicFormula /\ img_risk >= 20

\* C6 as stated: with no model score and no explicit hit, entropy above 7.5
\* scores 5 + floor(min(0.4, entropy - 7.6) * 62.5), plus 5 from 2,000,000
\* bytes, clamped to [5,30]; anything else scores 5.
C6_Original ==
    (RawDone /\ NoModelScore /\ ~ExplicitHit) =>
      img_risk = IF AggEntropy > 7500
                 THEN Clamp(5, 30, 5 + ((Min(400, AggEntropy - 7600) * 625) \div 10000)
                                     + (IF AggSize >= 2000000 THEN 5 ELSE 0))
                 ELSE 5

\* C6 amended: as stated, with the difference to 7.6 floored at zero:
\* 5 + floor(max(0, min(0.4, entropy - 7.6)) * 62.5).
C6_Amended ==
    (RawDone /\ NoModelScore /\ ~ExplicitHit) =>
      img_risk = IF AggEntropy > 7500
                 THEN LET d == Clamp(0, 400, AggEntropy - 7600)
                      IN Clamp(5, 30, 5 + ((d * 625) \div 10000)
                                        + (IF AggSize >= 2000000 THEN 5 ELSE 0))
                 ELSE 5

\* C6 witness: entropy 7.55 and 2,000,000 bytes score 10.
C6_Witness ==
    /\ RawDone /\ NoModelScore /\ ~ExplicitHit
    /\ AggEntropy = 7550 /\ AggSize >= 2000000
    /\ img_risk = 10

\* C7 as stated: 10 files enumerated, none flagged, whole-image head entropy
\* 7.9, at least 2,000,000 bytes, no model score: the risk score is 28.
C7_EntropyReachesAggregator ==
    (RawDone /\ NoModelScore /\ Len(records) = 10 /\ result.suspicious_detail = << >>
       /\ contents.ent = 7900 /\ contents.len >= 2000000)
      => img_risk = 28

\* C8: an empty buffer is rejected with an input error; no temporary file is
\* created, no image is opened, nothing is mounted, no result is returned.
C8_EmptyRejected ==
    contents.len = 0 =>
      /\ tmp = "none" /\ img_info = "None" /\ attempt = 0 /\ fs_objects = << >>
      /\ result = NoResult
      /\ pc = "done" =>
           IF entry = "analyze_file"
           THEN response.status = 400
           ELSE raised = "ValueError" /\ ~response.returned

\* C8 witness: the direct call with the empty buffer ended with ValueError.
C8_Witness ==
    /\ contents.len = 0 /\ pc = "done"
    /\ entry = "analyze_raw_image" /\ raised = "ValueError"

\* C9 as stated: a non-empty buffer shorter than 512 bytes is rejected as an
\* input error before any image open or filesystem parsing is attempted.
C9_TooSmallRejected ==
    (contents.len > 0 /\ contents.len < 512) =>
      /\ tmp = "none" /\ img_info = "None" /\ attempt = 0
      /\ (pc = "done" /\ raised # "RuntimeError") =>
           IF entry = "analyze_file"
           THEN response.status = 400
           ELSE raised = "ValueError"

\* C10: with a valid MBR signature, the image opened and nothing mounted,
\* analyze_raw_image returns a result with file count 0, the entropy of the
\* buffer's head and the buffer size.
C10_UnreadableReturns ==
    (contents.mbr /\ contents.len >= 512 /\ img_info = "open" /\ fs_objects = << >>
       /\ pc \in {"ari_exit", "done"})
      => /\ raised = "none"
         /\ result.num_files = 0
         /\ "fallback_entropy" \in DOMAIN result
         /\ result.fallback_entropy = contents.ent
         /\ result.fallback_size = contents.len
         /\ (pc = "done" /\ entry = "analyze_raw_image") => response.returned

\* C10 witness: the direct call on the MBR image returned the fallback result.
C10_Witness ==
    /\ contents.mbr /\ img_info = "open" /\ fs_objects = << >>
    /\ pc = "done" /\ entry = "analyze_raw_image"
    /\ response.returned /\ result.num_files = 0

\* C11 as stated: every non-empty buffer gets a summary; when the image
\* cannot be opened after all retries the caller receives the partial result
\* (file count 0, entropy, size), not an exception or a rejected request.
C11_OpenFailureReturnsSummary ==
    (pc = "done" /\ upload.raw /\ contents.len > 0 /\ contents.len <= MAX_UPLOAD
       /\ raised # "RuntimeError")
      => /\ raised = "none"
         /\ IF entry = "analyze_file" THEN response.status = 200 ELSE response.returned
         /\ (attempt = OPEN_ATTEMPTS /\ ~is_demo(upload)) =>
              /\ result # NoResult
              /\ result.num_files = 0
              /\ "fallback_entropy" \in DOMAIN result
              /\ result.fallback_size = contents.len

\* C12 as stated: on every exit path of analyze_raw_image after the temporary
\* file was created, the file no longer exists when the call ends.
C12_TempFileRemoved ==
    (pc \in {"ari_exit", "done"} /\ tmp # "none") => tmp = "removed"

\* C13: the image open is attempted at most 5 times; failed attempt k of the
\* first four is followed by a wait of 0.2*k seconds and another attempt; no
\* attempt follows a successful open; the failure is fatal only after the
\* 5th failed attempt.
C13_BoundedRetry ==
    /\ attempt \in 0 .. 5
    /\ pc = "ari_open" => (attempt <= 4 /\ img_info = "None" /\ raised = "none")
    /\ img_info = "open" => (pc # "ari_open" /\ attempt = 0)
    /\ (pc = "ari_open" \/ attempt = 5) =>
         /\ Len(slept) = (IF attempt < 4 THEN attempt ELSE 4)
         /\ \A k \in DOMAIN slept : slept[k] = 200 * k
    /\ (raised = "ValueError" /\ contents.len > 0) =>
         (attempt = 5 /\ img_info = "None")

\* C13 witness: five failed attempts, waits of 0.2, 0.4, 0.6 and 0.8 seconds
\* between them, then the fatal error.
C13_Witness ==
    /\ attempt = 5 /\ raised = "ValueError"
    /\ slept = <<200, 400, 600, 800>>

\* C14: the sample set analyze_raw_image returns never has more than 8
\* items, and every item with a non-empty reason comes before every item
\* with an empty reason.
C14_SampleSetBounded ==
    "samples" \in DOMAIN result =>
      LET s == result.samples
      IN /\ Len(s) <= 8
         /\ \A i, j \in DOMAIN s :
              (i < j /\ s[i].reason = << >>) => s[j].reason = << >>

\* C14 witness: ten files, the first one flagged: the flagged file leads and
\* seven of the nine others fill the set.
C14_Witness ==
    /\ pc = "ari_exit" /\ "samples" \in DOMAIN result
    /\ Len(records) = 10
    /\ Len(result.samples) = 8
    /\ result.samples[1].reason # << >>
    /\ result.samples[8].reason = << >>

\* Positions of the timeline whose entry has a modification time.
Dated == {i \in DOMAIN timeline : timeline[i].mtime # None}
Undated == DOMAIN timeline \ Dated

\* C15 as stated: for two entries A, B with known mtime, A is before B iff
\* A.mtime >= B.mtime; entries without mtime come after those with one;
\* entries without mtime and ctime come last.
C15_Original ==
    tl_pc = "sorted" =>
      /\ \A i, j \in Dated :
           i # j => (i < j <=> timeline[i].mtime >= timeline[j].mtime)
      /\ \A i \in Dated, j \in Undated : i < j
      /\ \A i, j \in DOMAIN timeline :
           (timeline[i].mtime = None /\ timeline[i].ctime = None
              /\ (timeline[j].mtime # None \/ timeline[j].ctime # None)) => j < i

\* C15 amended: for two entries A, B with known mtime, A.mtime > B.mtime
\* implies A is before B (so A before B implies A.mtime >= B.mtime), and on
\* equal mtime the one with the later known ctime is first; entries without
\* mtime come after those with one; entries without mtime and ctime come
\* last.
C15_Amended ==
    tl_pc = "sorted" =>
      /\ \A i, j \in Dated :
           /\ timeline[i].mtime > timeline[j].mtime => i < j
           /\ (timeline[i].mtime = timeline[j].mtime /\ timeline[j].ctime # None
                 /\ timeline[i].ctime > timeline[j].ctime) => i < j
      /\ \A i \in Dated, j \in Undated : i < j
      /\ \A i, j \in DOMAIN timeline :
           (timeline[i].mtime = None /\ timeline[i].ctime = None
              /\ (timeline[j].mtime # None \/ timeline[j].ctime # None)) => j < i
      /\ Len(timeline) = Len(tl_records)
      /\ \A r \in DOMAIN tl_records : \E i \in DOMAIN timeline : timeline[i] = tl_records[r]

\* C15 witness: two files with the same mtime, the second created later, and
\* a third without times: the timeline holds the second, the first, the
\* third.
C15_Witness ==
    /\ tl_pc = "sorted" /\ Len(timeline) = 3
    /\ tl_records[1].mtime = 1 /\ tl_records[1].ctime = 1
    /\ tl_records[2].mtime = 1 /\ tl_records[2].ctime = 2
    /\ tl_records[3].mtime = None /\ tl_records[3].ctime = None
    /\ timeline[1].path = 2 /\ timeline[2].path = 1 /\ timeline[3].path = 3

\* C16 as stated: every suspicious item with pe_header refers to content
\* whose first two bytes are 'MZ', both for a file of the image and for the
\* [raw_image] item of the fallback analyzer.
C16_PeHeaderMeansMZ ==
    /\ \A i \in DOMAIN suspicious_items :
         (\E k \in DOMAIN suspicious_items[i].reason :
            suspicious_items[i].reason[k] = "pe_header")
           => \E r \in DOMAIN records :
                /\ records[r].file.is_pe
                /\ records[r].file.ext = suspicious_items[i].ext
                /\ records[r].size = suspicious_items[i].size
    /\ (raw_head.read /\ PeFlag) => raw_head.starts_mz

\* Some read of record r raised; the bytes its reads returned.
ReadFailed(r) == \E k \in DOMAIN read_log[r].reads : read_log[r].reads[k] = ReadRaised
HashEntries(r) == {i \in DOMAIN all_hashes : all_hashes[i].path = h_records[r].path}
RECURSIVE BytesRead(_)
BytesRead(rs) ==
    IF rs = << >> THEN 0
    ELSE (IF Head(rs) > 0 THEN Head(rs) ELSE 0) + BytesRead(Tail(rs))

\* C17: a FileRecord has a digest exactly when hashing completed without a
\* read error; a file one of whose reads raises keeps its size, has no digest
\* and no hashes entry; a file hashed without error, also one ending early
\* with a zero-byte read, has a digest and exactly one hashes entry.
C17_DigestIffNoReadError ==
    /\ Len(read_log) = Len(h_records)
    /\ \A r \in DOMAIN h_records :
         /\ h_records[r].sha256 # None <=> (read_log[r].meta_ok /\ ~ReadFailed(r))
         /\ read_log[r].meta_ok => h_records[r].size = read_log[r].size
         /\ h_records[r].sha256 = None => HashEntries(r) = {}
         /\ h_records[r].sha256 # None =>
              /\ Cardinality(HashEntries(r)) = 1
              /\ \A i \in HashEntries(r) : all_hashes[i].sha256 = h_records[r].sha256
              /\ h_records[r].sha256 = BytesRead(read_log[r].reads)

\* C17 witness: a file of 1.5 MiB whose second read raises has its size and
\* no digest; the next file, ended early by a zero-byte read, has a digest.
C17_Witness ==
    /\ Len(h_records) = 2
    /\ read_log[1].reads = <<1048576, ReadRaised>>
    /\ h_records[1].size = 1572864 /\ h_records[1].sha256 = None
    /\ read_log[2].reads = <<524288, 0>>
    /\ h_records[2].sha256 = 524288
    /\ Len(all_hashes) = 1

\* C18 as stated: the digest is absent only if the very first read raises;
\* once a chunk was read, a digest over the bytes read so far is returned,
\* whether reading stops by a zero-byte read or by a failing read.
C18_PartialDigest ==
    \A r \in DOMAIN h_records :
      read_log[r].meta_ok =>
        /\ h_records[r].sha256 = None =>
             (read_log[r].reads # << >> /\ read_log[r].reads[1] = ReadRaised)
        /\ BytesRead(read_log[r].reads) > 0 =>
             h_records[r].sha256 = BytesRead(read_log[r].reads)

\* The payload has no samples entry and no sample head among its scores.
NoSampleData(payload) ==
    /\ "samples" \notin DOMAIN payload
    /\ "file_scores" \in DOMAIN payload =>
         \A i \in DOMAIN payload.file_scores : "head" \notin DOMAIN payload.file_scores[i]

\* C19: no payload leaving analyze_file for a RAW image (the response, the
\* cache entry, the persisted scan summary) has a samples entry or sample
\* head bytes.
C19_NoSampleBytesLeave ==
    (pc = "done" /\ entry = "analyze_file" /\ upload.raw /\ response.status = 200) =>
      /\ NoSampleData(response.body)
      /\ NoSampleData(response.cached)
      /\ \A i \in DOMAIN response.persisted : NoSampleData(response.persisted[i])

\* C19 witness: samples with a head were scored, and the summary was
\* returned, cached and persisted with their scores only.
C19_Witness ==
    /\ RawDone
    /\ Len(sample_scores) >= 2
    /\ "file_scores" \in DOMAIN response.body
    /\ response.body.file_scores = sample_scores
    /\ response.persisted = <<response.body>>
    /\ response.cached = response.body

\* The scorer is unavailable or raises for every file of the image.
ScorerDown == \A r \in DOMAIN records : records[r].file.ml = Fail

\* The score of the aggregator's entropy step for the result at hand.
EntropyFormula ==
    IF AggEntropy > 7500
    THEN Clamp(5, 30, 5 + ((Clamp(0, 400, AggEntropy - 7600) * 625) \div 10000)
                        + (IF AggSize >= 2000000 THEN 5 ELSE 0))
    ELSE 5

\* C20: when the scorer is unavailable or raises for every file and sample,
\* the analysis completes and the risk score is the heuristic score if an
\* explicit hit exists and the entropy score otherwise; no model term enters.
C20_ScorerElided ==
    /\ (pc = "done" /\ entry = "analyze_file" /\ upload.raw /\ raised = "none"
          /\ contents.len > 0 /\ contents.len <= MAX_UPLOAD /\ ScorerDown)
         => response.status = 200
    /\ (RawDone /\ ScorerDown) =>
         /\ sample_scores = << >>
         /\ risk_model = None
         /\ ~ImageModelScore
         /\ "file_scores" \in DOMAIN response.body => response.body.file_scores = << >>
         /\ img_risk = IF ExplicitHit THEN HeuristicFormula ELSE EntropyFormula
         /\ response.body.risk_score = img_risk

\* C20 witness: two flagged files, the scorer failing on both: the score is
\* the heuristic one, 35 + 15 + 6.
C20_Witness ==
    /\ RawDone /\ ScorerDown
    /\ Len(records) = 2 /\ Len(result.suspicious_detail) = 2
    /\ PeFlag /\ ExtFlag /\ ~ScriptFlag
    /\ img_risk = 56

\* The signals of the file have been extracted.
SignalsDone == sx_pc \in {"pool", "finalize", "done"}
ReasonOrder == <<"pe_header", "js_keywords", "vbs_keywords", "ps1_keywords", "susp_ext",
                 "high_entropy">>
PosOf(r) == CHOOSE i \in DOMAIN ReasonOrder : ReasonOrder[i] = r
SxHas(r) == \E i \in DOMAIN sx_reasons : sx_reasons[i] = r

\* C21: the reasons of a file are a duplicate-free subsequence of the fixed
\* order pe_header, js_keywords, vbs_keywords, ps1_keywords, susp_ext,
\* high_entropy; each is present exactly when its flag holds, high_entropy
\* exactly when the head entropy is at least 7.5 and the size exceeds 50,000
\* bytes; and the file is a suspicious item exactly when it has a reason.
C21_ReasonsFollowFlags ==
    SignalsDone =>
      /\ \A i \in DOMAIN sx_reasons : sx_reasons[i] \in Range(ReasonOrder)
      /\ \A i, j \in DOMAIN sx_reasons :
           i < j => PosOf(sx_reasons[i]) < PosOf(sx_reasons[j])
      /\ SxHas("pe_header") <=> sx_head.is_pe
      /\ SxHas("js_keywords") <=> sx_head.is_js
      /\ SxHas("vbs_keywords") <=> sx_head.is_vbs
      /\ SxHas("ps1_keywords") <=> sx_head.is_ps1
      /\ SxHas("susp_ext") <=> sx_file.ext \in SUSPICIOUS_EXTENSIONS
      /\ SxHas("high_entropy") <=> (sx_head.ent >= 7500 /\ sx_file.size > 50000)
      /\ (Len(sx_items) = 1) <=> (sx_reasons # << >>)
      /\ Len(sx_items) <= 1
      /\ \A i \in DOMAIN sx_items : sx_items[i].reason = sx_reasons

\* A file of more than 50,000 bytes whose head holds every keyword class and
\* has entropy 7.5 carries all six reasons; one of exactly 50,000 bytes with
\* the same entropy is left without high_entropy.
C21_Witness ==
    /\ sx_pc = "done"
    /\ sx_reasons = ReasonOrder
    /\ sx_head.ent = 7500 /\ sx_file.size = 50001
    /\ Len(sx_items) = 1

\* The head of the file could not be read although the file has bytes.
HeadReadFailed == SignalsDone /\ sx_file.size > 0 /\ sx_head.len = 0

\* C27: a file whose head cannot be read gets no reasons and is not added
\* to the suspicious items.
C27_UnreadableHeadIsSignalFree ==
    HeadReadFailed => sx_reasons = << >> /\ sx_items = << >>

\* C28: the head of every sample is at most 256 KiB long, whether the sample
\* was admitted for an explicit reason or filled in from the largest
\* remaining files.
C28_SampleHeadBounded ==
    \A i \in DOMAIN sx_samples : sx_samples[i].head <= 262144

\* The check of the validator that comes first among those the buffer matches.
FirstMatch(b) ==
    IF b.mbr THEN "MBR"
    ELSE IF b.gpt THEN "GPT"
    ELSE IF b.sig # NoSig THEN b.sig
    ELSE IF b.len > 1024000 /\ b.binary THEN "large binary"
    ELSE "none"

\* C22: the validator returns a verdict for every buffer; a buffer under 512
\* bytes is rejected, and a longer one is accepted exactly when the MBR
\* signature, the GPT header, a filesystem signature at its fixed offset or
\* the large-binary heuristic matches, the reason naming the first match.
C22_ValidatorVerdict ==
    v_pc = "done" =>
      /\ file_bytes.len < 512 => ~v_ret.valid
      /\ file_bytes.len >= 512 =>
           /\ v_ret.valid <=> FirstMatch(file_bytes) # "none"
           /\ v_ret.valid => v_ret.msg = FirstMatch(file_bytes)

\* The directories above each file of the volume "tree".
DirsAbove(f) ==
    CASE f \in {"a", "z"} -> {"root"}
      [] f = "b"          -> {"root", "d"}
      [] OTHER            -> {"root", "d", "e"}
\* The file was yielded and opened by the caller.
Visited(f) == \E i \in DOMAIN w_yield : w_yield[i].name = f /\ w_yield[i].opened
\* The file itself failed, or a directory above it could not be opened or read.
Excused(f) ==
    \E i \in DOMAIN w_swallowed :
       \/ w_swallowed[i].kind \in {"entry_failed", "open_failed"} /\ w_swallowed[i].name = f
       \/ w_swallowed[i].kind \in {"open_dir", "iter", "recursion"}
          /\ w_swallowed[i].dir \in DirsAbove(f)
AllOthersVisited ==
    (w_pc = "done" /\ w_fs = "tree") => \A f \in {"a", "b", "c", "z"} : Visited(f) \/ Excused(f)

\* C23: a failure to open or read one directory or file does not stop the
\* walk, every entry not under the failure is still visited, and each
\* swallowed failure adds an entry to the parse warnings.
C23_SwallowedFailuresAreWarned ==
    /\ AllOthersVisited
    /\ Len(w_errors) = Len(w_swallowed)

\* The number of regular-file entries of the volume.
FileCount(fsv) == IF fsv = "cyclic" THEN 3 ELSE 4

NothingMounted == result # NoResult /\ raised = "none" /\ Len(fs_objects) = 0

\* C25: when no volume can be opened at all, the result carries a
\* [raw_image] suspicious item for each header or keyword class the raw
\* buffer holds.
C25_UnmountableGetsFallback ==
    NothingMounted => \A c \in raw_head.classes : DetailHas(c)

\* C26: on the same bytes the fallback analyzer raises js_keywords,
\* vbs_keywords and ps1_keywords exactly when the signal extractor raises
\* is_js, is_vbs and is_ps1: every keyword is matched whatever its case.
C26_FallbackMatchesExtractor ==
    k_pc = "done" => k_fallback = k_file

\* C29: the size the hasher returns for a file is the number of bytes its
\* reads returned; after a zero-byte read before the end of the file it is
\* the number of bytes consumed so far, not the size in the metadata.
C29_SizeIsBytesRead ==
    \A r \in DOMAIN h_records :
      h_records[r].sha256 # None => h_records[r].size = BytesRead(read_log[r].reads)

\* The token of the request verifies under the server secret.
ValidlySigned == request.auth = "bearer" /\ request.form = "jwt" /\ request.signed
\* The scans stored by this request.
StoredNow == {i \in DOMAIN scans : scans[i].filename = "upload.raw"}

\* C30: a request is resolved to a user other than anon only when the
\* signature of its bearer token verifies; so the history and statistics of
\* a user are returned, and scans stored under a user, only for a validly
\* signed token.
C30_UserOnlyWithValidSignature ==
    a_pc \in {"serve", "done"} =>
      /\ uid # "anon" => ValidlySigned
      /\ (a_resp.kind = "history" /\ a_resp.docs # << >>) => ValidlySigned
      /\ a_resp.kind = "stats" => ValidlySigned
      /\ StoredNow # {} => ValidlySigned
====
